---- MODULE Spec2Model ----
(***************************************************************************)
(* Rapid Type Analysis engine of unusedfunc (internal/rta/rta.go).         *)
(*                                                                         *)
(* The analysed SSA program is an input: a fixed universe of functions,    *)
(* types and interfaces (the "world" below) whose function bodies and      *)
(* root list are drawn from bounded sets in the initial state.  The engine *)
(* state is the rta struct; one step of the model is one step of Analyze:  *)
(* the prologue, a buffer swap, entering a function, one instruction of    *)
(* visitFunc, leaving a function, or the return.                           *)
(***************************************************************************)
EXTENDS Integers, Sequences, FiniteSets, TLC

VARIABLES
  roots,     \* the roots argument of Analyze
  body,      \* f.Blocks of every function of the program, flattened
  hasReflect,\* whether "reflect" is among the program's dependencies
  r,         \* the rta struct (with its Result)
  shadow,    \* Analyze's local shadow buffer
  i,         \* position of the range loop over shadow (1-based)
  ip,        \* position of visitFunc in the current function's instructions
  pc,        \* where Analyze is: start, loop, scan, done, panic
  result,    \* what Analyze returned: none (not yet), nil, or r.result
  scanned    \* history: the functions visitFunc was called on, in order

vars == <<roots, body, hasReflect, r, shadow, i, ip, pc, result, scanned>>

\* ------------------------------------------------------------------ bounds

\* Longest instruction list drawn for a function with a variable body.
MaxBody == 2
\* Longest roots list drawn.
MaxRoots == 2
\* Number of starting offsets tried for every hash-map iteration.
IterStarts == 3

\* ------------------------------------------------------------ small helpers

\* m[k] = v in a Go map / typeutil.Map.
Put(m, k, v) == [y \in DOMAIN m \cup {k} |-> IF y = k THEN v ELSE m[y]]

EmptyMap == [y \in {} |-> FALSE]

\* m[k], or the zero value d when k is absent.
At(m, k, d) == IF k \in DOMAIN m THEN m[k] ELSE d

Range(q) == {q[n] : n \in DOMAIN q}

\* F applied to the value of x: x is evaluated once, like the operand of a
\* Go assignment, however often F refers to it.
Once(F(_), x) == CHOOSE y \in {F(v) : v \in {x}} : TRUE

RECURSIVE FoldSeq(_, _, _)
\* s after "for _, e := range q { s = Op(s, e) }".
FoldSeq(Op(_, _), s, q) ==
  Once(LAMBDA p : IF p[2] = <<>> THEN p[1]
                  ELSE FoldSeq(Op, Op(p[1], Head(p[2])), Tail(p[2])),
       <<s, q>>)

\* All sequences over S of length at most n.
SeqsUpTo(S, n) == UNION {[1..k -> S] : k \in 0..n}

\* ------------------------------------------------- the SSA program (world)

\* The nil *ssa.Function.
NoFunc == "nil"

\* Package paths, as character sequences (hasModulePath scans characters).
UserPath == <<"e", "x", ".", "c", "o", "m", "/", "p">>
FmtPath == <<"f", "m", "t">>
BytesPath == <<"b", "y", "t", "e", "s">>
RuntimePath == <<"r", "u", "n", "t", "i", "m", "e">>
ReflectPath == <<"r", "e", "f", "l", "e", "c", "t">>
JsonPath == <<"e", "n", "c", "o", "d", "i", "n", "g", "/", "j", "s", "o", "n">>
\* f.Pkg == nil (synthetic wrappers, instantiations).
NoPkg == <<"?">>

\* Named concrete types:
\*   type F struct{ k K };  func (F) Write();  func (*F) Close()
\*   type B struct{ next *B };  func (*B) Write();  func (*B) Flush()
\*   type K struct{ n int };  func (K) Other(); func (K) String(); func (K) mark()
\*   type Box[T any] struct{ n int };  func (Box[T]) Write()   (generic, no SSA function)
\*   bytes.Buffer (stdlib): func (*Buffer) Write()
NamedTypes == {"F", "B", "K", "Box", "Buf"}

\* Interfaces: any = interface{}, W = interface{Write()}, S = interface{String()},
\* M = interface{mark()} (an unexported marker method),
\* WC = interface{Close(); Write()}.
IfaceTypes == {"any", "W", "S", "M", "WC"}

PtrTo(T) == "*" \o T

StructOf(N) == "struct " \o N

SigTypes == {"func()", "func(int)", "func(*F)", "func(T)"}

TupleTypes == {"()", "(int)", "(*F)", "(T)"}

\* Pointers to named types and to interfaces.
PtrTypes == {PtrTo(T) : T \in NamedTypes \cup IfaceTypes}

StructTypes == {StructOf(N) : N \in NamedTypes}

Types ==
  NamedTypes \cup IfaceTypes \cup PtrTypes \cup StructTypes \cup SigTypes
    \cup TupleTypes \cup {"int", "T"}

\* The dynamic kind of a types.Type (the type switches of the engine).  A type
\* outside Types is types.NewPointer of one of them.
Kind(T) ==
  CASE T \in NamedTypes -> "named"
    [] T \in IfaceTypes -> "iface"
    [] T \in PtrTypes -> "ptr"
    [] T \in StructTypes -> "struct"
    [] T \in SigTypes -> "sig"
    [] T \in TupleTypes -> "tuple"
    [] T = "T" -> "typeparam"
    [] T = "int" -> "basic"
    [] OTHER -> "ptr"

\* T.Underlying().(*types.Interface) succeeds.
IsInterface(T) == Kind(T) = "iface"

\* t.Elem() of a pointer type.
Elem(T) == CHOOSE E \in Types : PtrTo(E) = T

\* t.Underlying() of a named type.
Underlying(T) == IF Kind(T) = "named" THEN StructOf(T) ELSE T

\* The field types of a struct type.
Fields(T) ==
  CASE T = StructOf("F") -> <<"K">>
    [] T = StructOf("B") -> <<PtrTo("B")>>
    [] OTHER -> <<"int">>

\* The element types of a tuple type.
TupleElems(T) ==
  CASE T = "(int)" -> <<"int">>
    [] T = "(*F)" -> <<PtrTo("F")>>
    [] T = "(T)" -> <<"T">>
    [] OTHER -> <<>>

\* t.Params() of a signature type (every result tuple is "()").
Params(T) ==
  CASE T = "func(int)" -> "(int)"
    [] T = "func(*F)" -> "(*F)"
    [] T = "func(T)" -> "(T)"
    [] OTHER -> "()"

\* The package a named type or interface is declared in.
TypePkg(T) == IF T = "Buf" THEN BytesPath ELSE UserPath

\* Method names that are not exported (token.IsExported is false).
Unexported == {"mark"}

Exported(name) == name \notin Unexported

\* Declared methods of a named type, sorted by Id; ptr = pointer receiver.
DeclaredMethods(N) ==
  CASE N = "F" -> <<[name |-> "Close", ptr |-> TRUE], [name |-> "Write", ptr |-> FALSE]>>
    [] N = "B" -> <<[name |-> "Flush", ptr |-> TRUE], [name |-> "Write", ptr |-> TRUE]>>
    [] N = "K" -> <<[name |-> "Other", ptr |-> FALSE], [name |-> "String", ptr |-> FALSE],
                    [name |-> "mark", ptr |-> FALSE]>>
    [] N = "Box" -> <<[name |-> "Write", ptr |-> FALSE]>>
    [] N = "Buf" -> <<[name |-> "Write", ptr |-> TRUE]>>
    [] OTHER -> <<>>

\* Methods of an interface, sorted by Id.
IfaceMethods(I) ==
  CASE I = "W" -> <<"Write">>
    [] I = "S" -> <<"String">>
    [] I = "M" -> <<"mark">>
    [] I = "WC" -> <<"Close", "Write">>
    [] OTHER -> <<>>

\* Generic (uninstantiated) named types: prog.MethodValue gives nil for them.
Parameterized == {"Box"}

\* The SSA function of method name with receiver type R ("F" or "*F").
MethodFunc(R, name) == "(" \o R \o ")." \o name

\* The types.Object of a method.
MethodObj(N, name) == N \o "." \o name

RECURSIVE Filter(_, _)
\* The elements of q that satisfy Test, in order.
Filter(Test(_), q) ==
  Once(LAMBDA w :
         IF w = <<>> THEN <<>>
         ELSE IF Test(Head(w)) THEN <<Head(w)>> \o Filter(Test, Tail(w))
         ELSE Filter(Test, Tail(w)),
       q)

\* prog.MethodSets.MethodSet(T): selections sorted by Id.  fn is what
\* prog.MethodValue gives (the method, a wrapper for a promoted value method of
\* a pointer type, or nil for interface and generic methods).
MethodSet(T) ==
  CASE Kind(T) = "named" ->
         [n \in DOMAIN Filter(LAMBDA m : ~m.ptr, DeclaredMethods(T)) |->
            LET m == Filter(LAMBDA x : ~x.ptr, DeclaredMethods(T))[n]
            IN [name |-> m.name, pkg |-> TypePkg(T), obj |-> MethodObj(T, m.name),
                fn |-> IF T \in Parameterized THEN NoFunc ELSE MethodFunc(T, m.name)]]
    [] Kind(T) = "ptr" /\ Kind(Elem(T)) = "named" ->
         [n \in DOMAIN DeclaredMethods(Elem(T)) |->
            LET m == DeclaredMethods(Elem(T))[n]
            IN [name |-> m.name, pkg |-> TypePkg(Elem(T)),
                obj |-> MethodObj(Elem(T), m.name),
                fn |-> IF Elem(T) \in Parameterized THEN NoFunc
                       ELSE MethodFunc(T, m.name)]]
    [] Kind(T) = "iface" ->
         [n \in DOMAIN IfaceMethods(T) |->
            [name |-> IfaceMethods(T)[n], pkg |-> UserPath,
             obj |-> MethodObj(T, IfaceMethods(T)[n]), fn |-> NoFunc]]
    [] OTHER -> <<>>

\* The selection for which mset.Lookup returns nil.
NoSel == [name |-> "", pkg |-> NoPkg, obj |-> "", fn |-> NoFunc]

\* The package argument nil of mset.Lookup(nil, name).
NilPkg == <<>>

\* mset.Lookup(pkg, name): by Id, so pkg matters for unexported names only.
Lookup(mset, pkg, name) ==
  LET hits == Filter(LAMBDA s : s.name = name /\ (Exported(name) \/ s.pkg = pkg), mset)
  IN IF hits = <<>> THEN NoSel ELSE hits[1]

\* types.Implements(T, I): T's method set has every method of I.
Implements(T, I) ==
  \A n \in DOMAIN IfaceMethods(I) :
    Lookup(MethodSet(T), UserPath, IfaceMethods(I)[n]) # NoSel

\* ------------------------------------------------------------- functions

\* Functions of package example.com/p whose bodies the initial state draws.
UserFuncs == {"main", "a", "b", "c", "d"}

\* h is a finalizer, main$1 a closure, Id[int] an instantiation of the generic
\* template Id; the rest are library functions.
FreeFuncs ==
  UserFuncs \cup {"h", "main$1", "Id[int]", "Id", "fmt.Println",
                  "runtime.SetFinalizer", "(reflect.Value).Call",
                  "encoding/json.Marshal"}

\* Methods with an SSA function: declared ones and pointer-receiver wrappers.
MethodFuncs ==
  UNION {{MethodSet(T)[n].fn : n \in DOMAIN MethodSet(T)} :
           T \in NamedTypes \cup PtrTypes} \ {NoFunc}

Funcs == FreeFuncs \cup MethodFuncs

\* f.Signature, as the signature type (receivers do not count).
Signature(f) ==
  CASE f \in {"c", "d", "Id[int]"} -> "func(int)"
    [] f \in {"h", "main$1"} -> "func(*F)"
    [] f = "Id" -> "func(T)"
    [] f = "fmt.Println" -> "func(...any)"
    [] f = "runtime.SetFinalizer" -> "func(any, any)"
    [] f = "encoding/json.Marshal" -> "func(any)"
    [] f = "(reflect.Value).Call" -> "func([]reflect.Value)"
    [] OTHER -> "func()"

\* f.Origin(): the generic template of an instantiation, else nil.
Origin(f) == IF f = "Id[int]" THEN "Id" ELSE NoFunc

\* The value-receiver methods <<N, m>> that have an SSA function.
ValueMethods ==
  UNION {{<<N, DeclaredMethods(N)[n].name>> :
            n \in {n \in DOMAIN DeclaredMethods(N) : ~DeclaredMethods(N)[n].ptr}} :
           N \in NamedTypes \ Parameterized}

\* The method (N).m that the synthetic wrapper f = (*N).m calls.
WrappedBy(f) ==
  {MethodFunc(p[1], p[2]) : p \in {p \in ValueMethods : MethodFunc(PtrTo(p[1]), p[2]) = f}}

\* Synthetic wrappers (*N).m of value-receiver methods (N).m.
IsWrapper(f) == WrappedBy(f) # {}

\* f.Pkg.Pkg.Path(); NoPkg when f.Pkg is nil (wrappers and instantiations).
FuncPkg(f) ==
  CASE f = "fmt.Println" -> FmtPath
    [] f = "runtime.SetFinalizer" -> RuntimePath
    [] f = "(reflect.Value).Call" -> ReflectPath
    [] f = "encoding/json.Marshal" -> JsonPath
    [] f = "Id[int]" \/ IsWrapper(f) \/ f = NoFunc -> NoPkg
    [] f \in {"(*Buf).Write"} -> BytesPath
    [] OTHER -> UserPath

\* f.Object().Name().
ObjName(f) == IF f = "runtime.SetFinalizer" THEN "SetFinalizer" ELSE f

\* f.Object() is nil for closures and wrappers.
HasObject(f) == f # "main$1" /\ ~IsWrapper(f)

\* ----------------------------------------------------------- instructions

\* Operand values.  v: fn (an *ssa.Function), closure (a MakeClosure of f) or
\* val (anything else); wrapped: the value is a MakeInterface of that.
FnVal(f) == [v |-> "fn", f |-> f, wrapped |-> FALSE]

IfaceOf(x) == [x EXCEPT !.wrapped = TRUE]

ClosureVal(f) == [v |-> "closure", f |-> f, wrapped |-> FALSE]

Val == [v |-> "val", f |-> NoFunc, wrapped |-> FALSE]

\* Instructions.  args are the operands after the call position.
Instr(op, f, t, to, m, args) ==
  [op |-> op, f |-> f, t |-> t, to |-> to, m |-> m, args |-> args]

\* A call with StaticCallee g.
Call(g, args) == Instr("call", g, "", "", "", args)

\* A call of a function value of signature S.
DynCall(S, args) == Instr("dyn", NoFunc, S, "", "", args)

\* A call of a builtin.
BuiltinCall(args) == Instr("builtin", NoFunc, "", "", "", args)

\* An invoke-mode call of I.m.
Invoke(I, m) == Instr("invoke", NoFunc, I, "", m, <<>>)

\* MakeInterface of operand x of type T to interface I.
MakeInterface(T, I, x) == Instr("mkiface", NoFunc, T, I, "", <<x>>)

\* TypeAssert of a value of type X to type A.
TypeAssert(X, A) == Instr("assert", NoFunc, X, A, "", <<Val>>)

\* ChangeInterface to interface I.
ChangeInterface(I) == Instr("chgiface", NoFunc, "", I, "", <<Val>>)

\* Any other instruction (a store, a MakeClosure, ...) with these operands.
Other(args) == Instr("other", NoFunc, "", "", "", args)

\* The bodies that are the same in every program: a wrapper calls the method
\* it wraps, everything else that is not drawn is empty.
FixedBody(f) ==
  IF IsWrapper(f) THEN <<Call(CHOOSE g \in WrappedBy(f) : TRUE, <<>>)>> ELSE <<>>

\* ------------------------------------------------------ hash-map iteration

RECURSIVE Canon(_)
\* The elements of S in a fixed order.
Canon(S) ==
  Once(LAMBDA V :
         IF V = {} THEN <<>>
         ELSE Once(LAMBDA x : <<x>> \o Canon(V \ {x}), CHOOSE y \in V : TRUE),
       S)

Reverse(q) == [n \in DOMAIN q |-> q[Len(q) + 1 - n]]

\* The orders a range over a Go map (or typeutil.Map.Iterate) may take: a
\* starting offset and a direction over the fixed order.
IterOrders == [start : 0..(IterStarts - 1), rev : BOOLEAN]

\* The keys S in iteration order o.
Iterate(S, o) ==
  Once(LAMBDA q :
         Once(LAMBDA rot : IF o.rev THEN Reverse(rot) ELSE rot,
              [k \in 1..Len(q) |-> q[((k - 1 + o.start) % Len(q)) + 1]]),
       Canon(S))

\* ------------------------------------------------------------ the engine

\* The key set of knownSafeFunctions and the method names of each entry.
JsonEnc == <<"MarshalJSON", "MarshalText">>
JsonDec == <<"UnmarshalJSON", "UnmarshalText">>
FmtVerb == <<"String", "GoString", "Error", "Format">>
FmtPlain == <<"String", "GoString", "Error">>
XmlEnc == <<"MarshalXML", "MarshalXMLAttr">>
XmlDec == <<"UnmarshalXML", "UnmarshalXMLAttr">>
SqlRow == <<"Scan", "Value">>

knownSafeFunctions ==
  [k \in {"encoding/json.Marshal", "encoding/json.MarshalIndent", "encoding/json.Unmarshal",
          "(*encoding/json.Encoder).Encode", "(*encoding/json.Decoder).Decode",
          "fmt.Printf", "fmt.Sprintf", "fmt.Fprintf", "fmt.Print", "fmt.Sprint",
          "fmt.Fprint", "fmt.Println", "fmt.Sprintln", "fmt.Fprintln", "fmt.Errorf",
          "encoding/xml.Marshal", "encoding/xml.MarshalIndent", "encoding/xml.Unmarshal",
          "(*encoding/xml.Encoder).Encode", "(*encoding/xml.Decoder).Decode",
          "gopkg.in/yaml.v3.Marshal", "gopkg.in/yaml.v3.Unmarshal",
          "gopkg.in/yaml.v2.Marshal", "gopkg.in/yaml.v2.Unmarshal",
          "(*encoding/gob.Encoder).Encode", "(*encoding/gob.Decoder).Decode",
          "encoding/binary.Write", "encoding/binary.Read",
          "(*database/sql.DB).Query", "(*database/sql.DB).QueryRow", "(*database/sql.DB).Exec",
          "(*database/sql.Stmt).Query", "(*database/sql.Stmt).QueryRow",
          "(*database/sql.Stmt).Exec"} |->
     CASE k \in {"encoding/json.Marshal", "encoding/json.MarshalIndent",
                 "(*encoding/json.Encoder).Encode"} -> JsonEnc
       [] k \in {"encoding/json.Unmarshal", "(*encoding/json.Decoder).Decode"} -> JsonDec
       [] k \in {"fmt.Printf", "fmt.Sprintf", "fmt.Fprintf", "fmt.Errorf"} -> FmtVerb
       [] k \in {"fmt.Print", "fmt.Sprint", "fmt.Fprint", "fmt.Println", "fmt.Sprintln",
                 "fmt.Fprintln"} -> FmtPlain
       [] k \in {"encoding/xml.Marshal", "encoding/xml.MarshalIndent",
                 "(*encoding/xml.Encoder).Encode"} -> XmlEnc
       [] k \in {"encoding/xml.Unmarshal", "(*encoding/xml.Decoder).Decode"} -> XmlDec
       [] k \in {"gopkg.in/yaml.v3.Marshal", "gopkg.in/yaml.v2.Marshal"} -> <<"MarshalYAML">>
       [] k \in {"gopkg.in/yaml.v3.Unmarshal", "gopkg.in/yaml.v2.Unmarshal"} ->
            <<"UnmarshalYAML">>
       [] k = "(*encoding/gob.Encoder).Encode" -> <<"GobEncode">>
       [] k = "(*encoding/gob.Decoder).Decode" -> <<"GobDecode">>
       [] k = "encoding/binary.Write" -> <<"MarshalBinary">>
       [] k = "encoding/binary.Read" -> <<"UnmarshalBinary">>
       [] k \in {"(*database/sql.DB).Exec", "(*database/sql.Stmt).Exec"} -> <<"Value">>
       [] OTHER -> SqlRow]

\* The rta struct as Analyze constructs it.  indexInit: interfaceToTypes and
\* typeToInterfaces are non-nil.
NewRTA(reflectValueCall) ==
  [Reachable |-> EmptyMap, ReachableObjects |-> {}, RuntimeTypes |-> EmptyMap,
   reflectValueCall |-> reflectValueCall, currentFunction |-> NoFunc,
   worklist |-> <<>>, addrTakenFuncsBySig |-> EmptyMap, dynCallSites |-> EmptyMap,
   invokeSites |-> EmptyMap, concreteTypes |-> EmptyMap, interfaceTypes |-> EmptyMap,
   indexInit |-> FALSE, interfaceToTypes |-> EmptyMap, typeToInterfaces |-> EmptyMap,
   userTypesIndexBuilt |-> FALSE, userTypes |-> <<>>]

\* Variants of markGenericTemplateReachable that the properties must tell from
\* it: one enqueues the template like any function, one leaves it out.
markGenericTemplateEnqueued(s, f) ==
  IF Origin(f) = NoFunc \/ Origin(f) = f THEN s
  ELSE IF Origin(f) \in DOMAIN s.Reachable THEN s
  ELSE [s EXCEPT !.Reachable = Put(@, Origin(f), FALSE),
                 !.worklist = Append(@, Origin(f))]

markGenericTemplateSkipped(s, f) == s

markGenericTemplateReachable(s, f) ==
  IF Origin(f) = NoFunc \/ Origin(f) = f THEN s
  ELSE IF Origin(f) \in DOMAIN s.Reachable THEN s
  ELSE [s EXCEPT !.Reachable = Put(@, Origin(f), FALSE)]

\* A variant of addReachable that puts a new function at the front of the
\* worklist.
addReachableFront(s, f, addrTaken) ==
  IF f = NoFunc THEN s
  ELSE IF f \in DOMAIN s.Reachable
  THEN [s EXCEPT !.Reachable[f] = @ \/ addrTaken]
  ELSE markGenericTemplateReachable(
         [s EXCEPT !.Reachable = Put(@, f, addrTaken), !.worklist = <<f>> \o @], f)

\* A variant of addReachable that enqueues a function each time it is reached.
addReachableAgain(s, f, addrTaken) ==
  IF f = NoFunc THEN s
  ELSE IF f \in DOMAIN s.Reachable
  THEN [s EXCEPT !.Reachable[f] = @ \/ addrTaken, !.worklist = Append(@, f)]
  ELSE [s EXCEPT !.Reachable = Put(@, f, addrTaken), !.worklist = Append(@, f)]

\* A variant of addReachable that does not enqueue the function.
addReachableUnqueued(s, f, addrTaken) ==
  IF f = NoFunc THEN s
  ELSE IF f \in DOMAIN s.Reachable
  THEN [s EXCEPT !.Reachable[f] = @ \/ addrTaken]
  ELSE markGenericTemplateReachable([s EXCEPT !.Reachable = Put(@, f, addrTaken)], f)

\* A variant of addReachable that overwrites the flag of a known function.
addReachableOverwrite(s, f, addrTaken) ==
  IF f = NoFunc THEN s
  ELSE IF f \in DOMAIN s.Reachable
  THEN [s EXCEPT !.Reachable[f] = addrTaken]
  ELSE markGenericTemplateReachable(
         [s EXCEPT !.Reachable = Put(@, f, addrTaken), !.worklist = Append(@, f)], f)

addReachable(s, f, addrTaken) ==
  IF f = NoFunc THEN s
  ELSE IF f \in DOMAIN s.Reachable
  THEN [s EXCEPT !.Reachable[f] = @ \/ addrTaken]
  ELSE markGenericTemplateReachable(
         [s EXCEPT !.Reachable = Put(@, f, addrTaken), !.worklist = Append(@, f)], f)

addReachableObject(s, obj) ==
  IF obj # "" THEN [s EXCEPT !.ReachableObjects = @ \cup {obj}] ELSE s

\* A variant of addEdge that drops the edge.
addEdgeDropped(s, callee, addrTaken) == s

addEdge(s, callee, addrTaken) == addReachable(s, callee, addrTaken)

\* "if sel != nil { if fn := r.prog.MethodValue(sel); fn != nil {
\*  addReachable(fn, true) } else if sel.Obj() != nil {
\*  addReachableObject(sel.Obj()) } }".
markSelection(s, sel) ==
  IF sel = NoSel THEN s
  ELSE IF sel.fn # NoFunc THEN addReachable(s, sel.fn, TRUE)
  ELSE addReachableObject(s, sel.obj)

\* ---------- addrTakenFuncs x dynCallSites

\* A variant of addReflectEdge that adds the edge with or without reflect.
addReflectEdgeAlways(s, f) == addEdge(s, f, TRUE)

\* A variant of addReflectEdge that adds no edge.
addReflectEdgeNever(s, f) == s

\* "if r.reflectValueCall != nil { r.addEdge(f, true) }" of visitAddrTakenFunc.
addReflectEdge(s, f) ==
  IF s.reflectValueCall # NoFunc THEN addEdge(s, f, TRUE) ELSE s

visitAddrTakenFunc(s, f) ==
  IF f \in At(s.addrTakenFuncsBySig, Signature(f), {}) THEN s
  ELSE addReflectEdge(
         FoldSeq(LAMBDA t, site : addEdge(t, f, TRUE),
                 [s EXCEPT !.addrTakenFuncsBySig =
                    Put(@, Signature(f), At(@, Signature(f), {}) \cup {f})],
                 At(s.dynCallSites, Signature(f), <<>>)),
         f)

\* A variant of visitDynCall that records the site and adds no edge.
visitDynCallRecordOnly(s, site, o) ==
  [s EXCEPT !.dynCallSites = Put(@, site.sig, Append(At(@, site.sig, <<>>), site))]

\* site: [fn |-> the calling function, ip |-> its instruction, sig, iface, m].
visitDynCall(s, site, o) ==
  FoldSeq(LAMBDA t, g : addEdge(t, g, TRUE),
          [s EXCEPT !.dynCallSites = Put(@, site.sig, Append(At(@, site.sig, <<>>), site))],
          Iterate(At(s.addrTakenFuncsBySig, site.sig, {}), o))

\* ---------- concrete types x invoke sites

\* One bit per method id: crc32.ChecksumIEEE of 64 zero bytes (space[:] has
\* length 64) followed by "id/params/results", mod 64.  Every method of the
\* program has no parameters and no results.
FingerprintBit(name) ==
  CASE name = "Write" -> 25
    [] name = "Close" -> 63
    [] name = "Flush" -> 1
    [] name = "String" -> 40
    [] name = "Other" -> 47
    [] name = "mark" -> 52

\* A variant of Fingerprint that hashes a method's position in the set along
\* with its id.
FingerprintPositional(mset) ==
  {(FingerprintBit(mset[n].name) + n) % 64 : n \in DOMAIN mset}

\* The uint64 mask, as the set of its one bits.
Fingerprint(mset) == {FingerprintBit(mset[n].name) : n \in DOMAIN mset}

\* x &^ y == 0 on masks.
AndNotIsZero(x, y) == x \subseteq y

implements(cinfo, iinfo) ==
  AndNotIsZero(iinfo.fprint, cinfo.fprint) /\ Implements(cinfo.C, iinfo.I)

getConcreteTypeInfo(s, C) ==
  IF C \in DOMAIN s.concreteTypes THEN s
  ELSE [s EXCEPT !.concreteTypes =
          Put(@, C, [C |-> C, fprint |-> Fingerprint(MethodSet(C)), implements |-> <<>>])]

getInterfaceTypeInfo(s, I) ==
  IF I \in DOMAIN s.interfaceTypes THEN s
  ELSE [s EXCEPT !.interfaceTypes =
          Put(@, I, [I |-> I, fprint |-> Fingerprint(MethodSet(I)),
                     implementations |-> <<>>, computed |-> FALSE])]

\* The memoized results of interfaces and implementations:
\* [s |-> the state after, out |-> the slice returned].
Memo(s, out) == [s |-> s, out |-> out]

\* interfaces(C) once cinfo exists.
interfacesOf(s, C, o) ==
  IF Len(s.concreteTypes[C].implements) = 0
  THEN Memo([s EXCEPT !.concreteTypes[C].implements =
               Filter(LAMBDA I : implements(s.concreteTypes[C], s.interfaceTypes[I]),
                      Iterate(DOMAIN s.interfaceTypes, o))],
            Filter(LAMBDA I : implements(s.concreteTypes[C], s.interfaceTypes[I]),
                   Iterate(DOMAIN s.interfaceTypes, o)))
  ELSE Memo(s, s.concreteTypes[C].implements)

interfaces(s, C, o) == interfacesOf(getConcreteTypeInfo(s, C), C, o)

\* The scan of implementations(I) over r.concreteTypes, found being its matches.
scanConcreteTypes(s, I, found) ==
  Memo([s EXCEPT
          !.concreteTypes =
            [C \in DOMAIN @ |->
               IF C \in Range(found) THEN [@[C] EXCEPT !.implements = Append(@, I)]
               ELSE @[C]],
          !.interfaceTypes[I].implementations = found,
          !.interfaceTypes[I].computed = TRUE,
          !.interfaceToTypes = IF s.indexInit THEN Put(@, I, found) ELSE @],
       found)

\* implementations(I) once iinfo exists.
implementationsOf(s, I, o) ==
  IF s.interfaceTypes[I].computed
  THEN Memo(s, s.interfaceTypes[I].implementations)
  ELSE IF s.indexInit /\ I \in DOMAIN s.interfaceToTypes
  THEN Memo([s EXCEPT !.interfaceTypes[I].implementations = s.interfaceToTypes[I],
                      !.interfaceTypes[I].computed = TRUE],
            s.interfaceToTypes[I])
  ELSE scanConcreteTypes(s, I,
         Filter(LAMBDA C : implements(s.concreteTypes[C], s.interfaceTypes[I]),
                Iterate(DOMAIN s.concreteTypes, o)))

implementations(s, I, o) == implementationsOf(getInterfaceTypeInfo(s, I), I, o)

\* A variant of orPointerMethod that resolves a method found nowhere to the
\* first method of C.
orFirstMethod(sel, site, C) ==
  IF sel # NoSel THEN sel
  ELSE IF Kind(C) # "ptr" /\ Lookup(MethodSet(PtrTo(C)), UserPath, site.m) # NoSel
  THEN Lookup(MethodSet(PtrTo(C)), UserPath, site.m)
  ELSE IF MethodSet(C) # <<>> THEN MethodSet(C)[1]
  ELSE NoSel

\* "if sel == nil { if _, ok := C.(*types.Pointer); !ok { sel =
\*  MethodSet(NewPointer(C)).Lookup(...) } }" of addInvokeEdge.
orPointerMethod(sel, site, C) ==
  IF sel = NoSel /\ Kind(C) # "ptr"
  THEN Lookup(MethodSet(PtrTo(C)), UserPath, site.m)
  ELSE sel

\* "if sel == nil { return }; r.addEdge(r.prog.MethodValue(sel), true)".
addSelEdge(s, sel) == IF sel = NoSel THEN s ELSE addEdge(s, sel.fn, TRUE)

addInvokeEdge(s, site, C) ==
  addSelEdge(s, orPointerMethod(Lookup(MethodSet(C), UserPath, site.m), site, C))

\* "for _, I := range r.interfaces(T) { for _, site := range invokeSites[I] {
\*  addInvokeEdge(site, T) } }"; known is what interfaces(T) gave.
addInvokeEdges(known, T) ==
  FoldSeq(LAMBDA t, I :
            FoldSeq(LAMBDA u, site : addInvokeEdge(u, site, T), t, At(t.invokeSites, I, <<>>)),
          known.s, known.out)

\* "for _, C := range r.implementations(I) { r.addInvokeEdge(site, C) }".
addSiteEdges(impl, site) ==
  FoldSeq(LAMBDA t, C : addInvokeEdge(t, site, C), impl.s, impl.out)

visitInvoke(s, site, o) ==
  addSiteEdges(
    implementations(
      [s EXCEPT !.invokeSites = Put(@, site.iface, Append(At(@, site.iface, <<>>), site))],
      site.iface, o),
    site)

\* ---------- runtime types

\* The static callees of the calls in function f.
StaticCalleesOf(f) ==
  IF f = NoFunc THEN {}
  ELSE {body[f][n].f : n \in {n \in DOMAIN body[f] : body[f][n].op = "call"}}

isInKnownSafeContext(s) ==
  /\ s.currentFunction # NoFunc
  /\ \E g \in StaticCalleesOf(s.currentFunction) : g \in DOMAIN knownSafeFunctions

shouldMarkMethodForReflection(s, name) ==
  \/ \E g \in StaticCalleesOf(s.currentFunction) :
       g \in DOMAIN knownSafeFunctions /\ name \in Range(knownSafeFunctions[g])
  \/ name \in {"MarshalJSON", "UnmarshalJSON", "MarshalText", "UnmarshalText",
               "String", "GoString", "Error", "Format"}

\* The loop of addTypeToIndex over r.interfaceTypes, once T's info exists.
indexType(s, T, o) ==
  FoldSeq(LAMBDA u, I :
            [u EXCEPT
               !.interfaceToTypes = Put(@, I, Append(At(@, I, <<>>), T)),
               !.typeToInterfaces = Put(@, T, Append(At(@, T, <<>>), I))],
          s,
          Filter(LAMBDA I :
                   /\ AndNotIsZero(s.interfaceTypes[I].fprint, s.concreteTypes[T].fprint)
                   /\ (Implements(T, I) \/ Implements(PtrTo(T), I)),
                 Iterate(DOMAIN s.interfaceTypes, o)))

addTypeToIndex(s, T, o) ==
  IF ~s.indexInit \/ IsInterface(T) THEN s ELSE indexType(getConcreteTypeInfo(s, T), T, o)

\* The types the structural switch of addRuntimeTypeStructure recurses into.
StructureOf(T) ==
  CASE Kind(T) = "ptr" -> <<Elem(T)>>
    [] Kind(T) = "named" -> <<PtrTo(T), Underlying(T)>>
    [] Kind(T) = "struct" -> Fields(T)
    [] Kind(T) = "tuple" -> TupleElems(T)
    [] OTHER -> <<>>

\* The <<type, skip>> calls of the structural switch that ends addRuntimeType.
\* A named type's methods all have type func().
TypeSwitchOf(T, skip) ==
  CASE Kind(T) = "ptr" -> <<<<Elem(T), skip>>>>
    [] Kind(T) = "sig" -> <<<<Params(T), skip>>, <<"()", skip>>>>
    [] Kind(T) = "named" ->
         <<<<PtrTo(T), skip>>, <<Underlying(T), TRUE>>>>
           \o [n \in DOMAIN DeclaredMethods(T) |-> <<"func()", skip>>]
    [] Kind(T) = "struct" -> [n \in DOMAIN Fields(T) |-> <<Fields(T)[n], skip>>]
    [] Kind(T) = "tuple" -> [n \in DOMAIN TupleElems(T) |-> <<TupleElems(T)[n], skip>>]
    [] OTHER -> <<>>

\* The allow-list branch of addRuntimeType: the methods named by the entry of
\* the current function itself, looked up with a nil package.
markKnownSafeMethods(s, mset) ==
  IF s.currentFunction \in DOMAIN knownSafeFunctions
  THEN FoldSeq(LAMBDA t, name : markSelection(t, Lookup(mset, NilPkg, name)),
               s, knownSafeFunctions[s.currentFunction])
  ELSE s

\* "for i := range mset.Len() { if m.Exported() { ... } }" of addRuntimeType.
markExportedMethods(s, mset) ==
  FoldSeq(LAMBDA t, sel :
            IF Exported(sel.name)
            THEN IF /\ t.currentFunction # NoFunc
                    /\ isInKnownSafeContext(t)
                    /\ t.currentFunction \in DOMAIN knownSafeFunctions
                    /\ sel.name \in Range(knownSafeFunctions[t.currentFunction])
                 THEN t
                 ELSE markSelection(t, sel)
            ELSE t,
          s, mset)

\* "for _, I := range r.interfaces(T) { ... addInvokeEdge(site, T) }".
addEdgesOfType(s, T, o) == addInvokeEdges(interfaces(s, T, o), T)

\* The two "if !skip" blocks of addRuntimeType; safe is "r.currentFunction !=
\* nil && r.isInKnownSafeContext()", which sets skip.
markForReflection(s, T, skip, safe, o) ==
  IF skip THEN s
  ELSE IF IsInterface(T)
  THEN IF safe THEN markKnownSafeMethods(s, MethodSet(T))
       ELSE markExportedMethods(s, MethodSet(T))
  ELSE IF safe THEN markKnownSafeMethods(addEdgesOfType(s, T, o), MethodSet(T))
  ELSE markExportedMethods(addEdgesOfType(s, T, o), MethodSet(T))

RECURSIVE addRuntimeType(_, _, _, _)
RECURSIVE addRuntimeTypeStructure(_, _, _)
RECURSIVE addRuntimeTypes(_, _, _)

\* addRuntimeType for each <<type, skip>> of calls, in order.
addRuntimeTypes(s, calls, o) ==
  Once(LAMBDA p :
         IF p[2] = <<>> THEN p[1]
         ELSE addRuntimeTypes(addRuntimeType(p[1], Head(p[2])[1], Head(p[2])[2], o),
                              Tail(p[2]), o),
       <<s, calls>>)

\* r.currentFunction does not change while an instruction is processed, so
\* the known-safe-context test is made on the state the call starts in.
addRuntimeType(s0, T, skip, o) ==
  Once(LAMBDA s :
         IF T \in DOMAIN s.RuntimeTypes
         THEN IF skip /\ ~s.RuntimeTypes[T]
              THEN [s EXCEPT !.RuntimeTypes = Put(@, T, skip)]
              ELSE s
         ELSE addRuntimeTypes(
                markForReflection(
                  addRuntimeTypeStructure(
                    addTypeToIndex([s EXCEPT !.RuntimeTypes = Put(@, T, skip)], T, o), T, o),
                  T, skip, isInKnownSafeContext(s), o),
                TypeSwitchOf(T, skip \/ isInKnownSafeContext(s)), o),
       s0)

addRuntimeTypeStructure(s, T, o) ==
  addRuntimeTypes(s, [n \in DOMAIN StructureOf(T) |-> <<StructureOf(T)[n], TRUE>>], o)

\* The loop of addRuntimeTypeSelective over the method set.
markSelectiveMethods(s, T) ==
  FoldSeq(LAMBDA u, sel :
            IF Exported(sel.name) /\ shouldMarkMethodForReflection(u, sel.name)
            THEN markSelection(u, sel)
            ELSE u,
          s, MethodSet(T))

addRuntimeTypeSelective(s, T, skip, o) ==
  IF T \in DOMAIN s.RuntimeTypes THEN s
  ELSE IF IsInterface(T) THEN [s EXCEPT !.RuntimeTypes = Put(@, T, skip)]
  ELSE addEdgesOfType(
         markSelectiveMethods([s EXCEPT !.RuntimeTypes = Put(@, T, skip)], T), T, o)

\* A variant of markRequiredMethods that marks nothing.
markRequiredMethodsSkipped(s, T, iface) == s

\* "for i := range iface.NumMethods() { sel := mset.Lookup(method.Pkg(),
\*  method.Name()); ... }": the methods of T that iface requires.
markRequiredMethods(s, T, iface) ==
  FoldSeq(LAMBDA u, name : markSelection(u, Lookup(MethodSet(T), UserPath, name)),
          s, IfaceMethods(iface))

addRuntimeTypeForInterface(s, T, iface, skip, o) ==
  IF T \in DOMAIN s.RuntimeTypes
  THEN IF IsInterface(T) THEN s ELSE markRequiredMethods(s, T, iface)
  ELSE IF IsInterface(T)
  THEN addRuntimeTypeStructure([s EXCEPT !.RuntimeTypes = Put(@, T, skip)], T, o)
  ELSE addRuntimeTypeStructure(
         addEdgesOfType(
           markRequiredMethods([s EXCEPT !.RuntimeTypes = Put(@, T, skip)], T, iface), T, o),
         T, o)

\* ---------- the program's packages

Packages == {UserPath, FmtPath, BytesPath, RuntimePath}

\* The members of a package that are types (*ssa.Type), interfaces included.
MemberTypes(pkg) ==
  IF pkg = UserPath THEN (NamedTypes \ {"Buf"}) \cup (IfaceTypes \ {"any"})
  ELSE IF pkg = BytesPath THEN {"Buf"}
  ELSE {}

RECURSIVE hasModulePath(_)
\* The loop over the characters of path: a dot before the first slash.
hasModulePath(path) ==
  Once(LAMBDA w :
         IF w = <<>> THEN FALSE
         ELSE IF Head(w) = "/" THEN FALSE
         ELSE IF Head(w) = "." THEN TRUE
         ELSE hasModulePath(Tail(w)),
       path)

isStdlibFunction(f) ==
  IF f = NoFunc \/ FuncPkg(f) = NoPkg THEN FALSE ELSE ~hasModulePath(FuncPkg(f))

\* The concrete member types of the packages, in the order the nested range
\* loops over AllPackages and Members yield them; stdlib packages are left
\* out when userOnly.
ProgramTypes(userOnly, o) ==
  FoldSeq(LAMBDA q, pkg :
            IF userOnly /\ ~hasModulePath(pkg) THEN q
            ELSE q \o Filter(LAMBDA T : ~IsInterface(T), Iterate(MemberTypes(pkg), o)),
          <<>>, Iterate(Packages, o))

markImplementorsMethodsReachable(s, targetIface, o) ==
  FoldSeq(LAMBDA t, T :
            IF Implements(T, targetIface) \/ Implements(PtrTo(T), targetIface)
            THEN IF T \in DOMAIN t.RuntimeTypes
                 THEN markRequiredMethods(t, T, targetIface)
                 ELSE addRuntimeType(t, T, FALSE, o)
            ELSE t,
          s, ProgramTypes(FALSE, o))

\* A variant of handleMakeInterface that treats every conversion like one to
\* the empty interface outside a known safe context.
handleMakeInterfaceConservative(s, instr, o) == addRuntimeType(s, instr.t, FALSE, o)

handleMakeInterface(s, instr, o) ==
  IF IsInterface(instr.to) /\ Len(IfaceMethods(instr.to)) = 0
  THEN IF Kind(instr.t) = "ptr" /\ IsInterface(Elem(instr.t))
       THEN markImplementorsMethodsReachable(s, Elem(instr.t), o)
       ELSE IF isInKnownSafeContext(s)
       THEN addRuntimeTypeSelective(s, instr.t, FALSE, o)
       ELSE addRuntimeType(s, instr.t, FALSE, o)
  ELSE addRuntimeTypeForInterface(s, instr.t, instr.to, FALSE, o)

\* ---------- type assertions, interface conversions, finalizers

\* A variant of markInterfaceMethodsReachable that looks only in the method
\* set of T, not in that of *T.
markInterfaceMethodsValueOnly(s, T, iface) ==
  FoldSeq(LAMBDA t, name : markSelection(t, Lookup(MethodSet(T), UserPath, name)),
          s, IfaceMethods(iface))

\* "for i := range iface.NumMethods() { for _, mset := range
\*  []*types.MethodSet{valueMset, ptrMset} { ... } }".
markInterfaceMethodsReachable(s, T, iface) ==
  FoldSeq(LAMBDA t, name :
            FoldSeq(LAMBDA u, mset : markSelection(u, Lookup(mset, UserPath, name)),
                    t, <<MethodSet(T), MethodSet(PtrTo(T))>>),
          s, IfaceMethods(iface))

\* r.userTypes after the two collecting loops of buildUserTypesIndex:
\* the concrete types of RuntimeTypes, then the program's user types not seen.
collectUserTypes(fromRuntime, o) ==
  fromRuntime \o Filter(LAMBDA T : T \notin Range(fromRuntime), ProgramTypes(TRUE, o))

\* "for _, T := range r.userTypes { getConcreteTypeInfo(T);
\*  getConcreteTypeInfo(NewPointer(T)) }".
precomputeFingerprints(s) ==
  FoldSeq(LAMBDA u, T : getConcreteTypeInfo(getConcreteTypeInfo(u, T), PtrTo(T)),
          s, s.userTypes)

\* The loop of buildUserTypesIndex that fills the two index maps.
fillIndex(s, o) ==
  FoldSeq(LAMBDA u, T :
            FoldSeq(LAMBDA v, I :
                      IF /\ \/ AndNotIsZero(v.interfaceTypes[I].fprint,
                                            v.concreteTypes[T].fprint)
                            \/ AndNotIsZero(v.interfaceTypes[I].fprint,
                                            v.concreteTypes[PtrTo(T)].fprint)
                         /\ (Implements(T, I) \/ Implements(PtrTo(T), I))
                      THEN [v EXCEPT
                              !.interfaceToTypes = Put(@, I, Append(At(@, I, <<>>), T)),
                              !.typeToInterfaces = Put(@, T, Append(At(@, T, <<>>), I))]
                      ELSE v,
                    u, Iterate(DOMAIN u.interfaceTypes, o)),
          [s EXCEPT !.indexInit = TRUE, !.userTypesIndexBuilt = TRUE], s.userTypes)

buildUserTypesIndex(s, o) ==
  IF s.userTypesIndexBuilt THEN s
  ELSE fillIndex(
         precomputeFingerprints(
           [s EXCEPT !.userTypes =
              @ \o collectUserTypes(Filter(LAMBDA T : ~IsInterface(T),
                                           Iterate(DOMAIN s.RuntimeTypes, o)), o)]),
         o)

\* r.interfaceToTypes[iface] of the state s.
indexedTypes(s, iface) == Memo(s, At(s.interfaceToTypes, iface, <<>>))

findAllImplementationsInProgram(s, iface, o) ==
  indexedTypes(buildUserTypesIndex(s, o), iface)

\* "for _, T := range types { r.markInterfaceMethodsReachable(T, iface) }".
markAllImplementations(all, iface) ==
  FoldSeq(LAMBDA t, T : markInterfaceMethodsReachable(t, T, iface), all.s, all.out)

\* A variant of assertToInterface that scans comprehensively in every function.
assertToInterfaceEverywhere(s, iface, o) ==
  markAllImplementations(findAllImplementationsInProgram(s, iface, o), iface)

\* handleTypeAssert's interface-to-interface case after buildUserTypesIndex.
assertToInterface(s, iface, o) ==
  IF isStdlibFunction(s.currentFunction)
  THEN FoldSeq(LAMBDA u, T :
                 IF T \in DOMAIN u.RuntimeTypes
                 THEN markInterfaceMethodsReachable(u, T, iface)
                 ELSE u,
               s, At(s.interfaceToTypes, iface, <<>>))
  ELSE markAllImplementations(findAllImplementationsInProgram(s, iface, o), iface)

handleTypeAssert(s, instr, o) ==
  IF IsInterface(instr.t) /\ Len(IfaceMethods(instr.t)) > 0 /\ ~IsInterface(instr.to)
  THEN markInterfaceMethodsReachable(s, instr.to, instr.t)
  ELSE IF ~IsInterface(instr.to) \/ Len(IfaceMethods(instr.to)) = 0 THEN s
  ELSE assertToInterface(buildUserTypesIndex(s, o), instr.to, o)

handleChangeInterface(s, instr, o) ==
  IF ~IsInterface(instr.to) \/ Len(IfaceMethods(instr.to)) = 0 THEN s
  ELSE markAllImplementations(findAllImplementationsInProgram(s, instr.to, o), instr.to)

\* A variant of checkSetFinalizer that ignores the call.
checkSetFinalizerIgnored(s, call) == s

\* call is a call instruction with static callee call.f.
checkSetFinalizer(s, call) ==
  IF ~HasObject(call.f) THEN s
  ELSE IF \/ FuncPkg(call.f) # RuntimePath
          \/ ObjName(call.f) # "SetFinalizer"
          \/ Len(call.args) < 2
  THEN s
  ELSE IF call.args[2].v \in {"fn", "closure"}
  THEN addReachable(s, call.args[2].f, TRUE)
  ELSE s

\* ---------- main algorithm

\* The call site of instruction n of f, for the dynCallSites and invokeSites maps.
Site(f, n) ==
  [fn |-> f, ip |-> n, sig |-> body[f][n].t, iface |-> body[f][n].t, m |-> body[f][n].m]

\* The "switch instr := instr.(type)" of visitFunc.
visitInstrKind(s, f, n, instr, o) ==
  CASE instr.op = "invoke" -> visitInvoke(s, Site(f, n), o)
    [] instr.op = "call" -> checkSetFinalizer(addEdge(s, instr.f, FALSE), instr)
    [] instr.op = "dyn" -> visitDynCall(s, Site(f, n), o)
    [] instr.op = "mkiface" -> handleMakeInterface(s, instr, o)
    [] instr.op = "assert" -> handleTypeAssert(s, instr, o)
    [] instr.op = "chgiface" -> handleChangeInterface(s, instr, o)
    [] OTHER -> s

\* "for _, op := range instr.Operands(rands[:0]) { if v, ok :=
\*  (*op).(*ssa.Function); ok { r.visitAddrTakenFunc(v) } }".
visitOperands(s, args) ==
  FoldSeq(LAMBDA t, op :
            IF op.v = "fn" /\ ~op.wrapped THEN visitAddrTakenFunc(t, op.f) ELSE t,
          s, args)

\* The body of visitFunc's loop for instruction n of f.
visitInstr(s, f, n, o) ==
  visitOperands(visitInstrKind(s, f, n, body[f][n], o), body[f][n].args)

\* The iteration orders that can make a difference at an instruction: the
\* handlers of the others range over no map.
OrdersAt(instr) ==
  IF instr.op \in {"call", "builtin", "other"}
  THEN {[start |-> 0, rev |-> FALSE]}
  ELSE IterOrders

\* A variant of NoRoots that never holds.
NoRootsNever(q) == FALSE

\* "len(roots) == 0".
NoRoots(q) == Len(q) = 0

\* Analyze, up to the worklist loop.  roots[0] is indexed and dereferenced for
\* its Prog: an empty list or a nil first entry is a run-time panic there.
Analyze ==
  /\ pc = "start"
  /\ IF NoRoots(roots)
     THEN pc' = "done" /\ result' = "nil" /\ r' = r
     ELSE IF Len(roots) = 0 \/ roots[1] = NoFunc
     THEN pc' = "panic" /\ result' = result /\ r' = r
     ELSE /\ pc' = "loop"
          /\ result' = result
          /\ r' = FoldSeq(LAMBDA t, root : addReachable(t, root, FALSE),
                          NewRTA(IF hasReflect THEN "(reflect.Value).Call" ELSE NoFunc),
                          roots)
  /\ UNCHANGED <<roots, body, hasReflect, shadow, i, ip, scanned>>

\* "shadow, r.worklist = r.worklist, shadow[:0]" when the worklist is not empty.
Swap ==
  /\ pc = "loop" /\ i > Len(shadow)
  /\ Len(r.worklist) > 0
  /\ shadow' = r.worklist
  /\ r' = [r EXCEPT !.worklist = <<>>]
  /\ i' = 1
  /\ UNCHANGED <<roots, body, hasReflect, ip, pc, result, scanned>>

\* visitFunc(shadow[i]) begins.
VisitFunc ==
  /\ pc = "loop" /\ i <= Len(shadow)
  /\ r' = [r EXCEPT !.currentFunction = shadow[i]]
  /\ scanned' = Append(scanned, shadow[i])
  /\ ip' = 1
  /\ pc' = "scan"
  /\ UNCHANGED <<roots, body, hasReflect, shadow, i, result>>

\* visitFunc processes its next instruction.
VisitInstr ==
  /\ pc = "scan" /\ ip <= Len(body[r.currentFunction])
  /\ \E o \in OrdersAt(body[r.currentFunction][ip]) :
       r' = visitInstr(r, r.currentFunction, ip, o)
  /\ ip' = ip + 1
  /\ UNCHANGED <<roots, body, hasReflect, shadow, i, pc, result, scanned>>

\* visitFunc returns (the deferred reset of currentFunction).
EndVisit ==
  /\ pc = "scan" /\ ip > Len(body[r.currentFunction])
  /\ r' = [r EXCEPT !.currentFunction = NoFunc]
  /\ i' = i + 1
  /\ pc' = "loop"
  /\ UNCHANGED <<roots, body, hasReflect, shadow, ip, result, scanned>>

\* The worklist is empty: Analyze returns r.result.
Return ==
  /\ pc = "loop" /\ i > Len(shadow)
  /\ Len(r.worklist) = 0
  /\ pc' = "done"
  /\ result' = "result"
  /\ UNCHANGED <<roots, body, hasReflect, r, shadow, i, ip, scanned>>

Next == Analyze \/ Swap \/ VisitFunc \/ VisitInstr \/ EndVisit \/ Return

\* The program whose drawn bodies are var; the state before Analyze runs.
InitWith(rootLists, programs, reflects) ==
  /\ roots \in rootLists
  /\ \E var \in programs :
       body = [f \in Funcs |-> IF f \in DOMAIN var THEN var[f] ELSE FixedBody(f)]
  /\ hasReflect \in reflects
  /\ r = NewRTA(NoFunc)
  /\ shadow = <<>>
  /\ i = 1
  /\ ip = 1
  /\ pc = "start"
  /\ result = "none"
  /\ scanned = <<>>

\* ---------- programs with static calls only

\* main and a are drawn; b calls c; d calls c and nothing calls d; the
\* instantiation Id[int] calls c and its template Id calls d.
StaticPrograms ==
  {[main |-> m, a |-> x, b |-> <<Call("c", <<>>)>>, c |-> <<>>, d |-> <<Call("c", <<>>)>>]
     @@ ("Id[int]" :> <<Call("c", <<>>)>>) @@ ("Id" :> <<Call("d", <<>>)>>) :
     m \in SeqsUpTo({Call(g, <<>>) : g \in {"a", "b", "Id[int]"}}, MaxBody),
     x \in SeqsUpTo({Call(g, <<>>) : g \in {"a", "b", "c", "Id[int]"}}, MaxBody)}

InitStatic == InitWith({<<"main">>}, StaticPrograms, {FALSE})

SpecStatic == InitStatic /\ [][Next]_vars

\* ---------- root lists with nil entries

\* q1 \o q2 \o ... for a sequence of sequences.
Concat(qs) == FoldSeq(LAMBDA acc, q : acc \o q, <<>>, qs)

\* The bodies made of at most n of the instruction groups in frags.
Bodies(frags, n) == {Concat(qs) : qs \in SeqsUpTo(frags, n)}

\* The functions whose bodies are the same in every program of a family.
Chain ==
  [b |-> <<Call("c", <<>>)>>, c |-> <<>>, d |-> <<Call("c", <<>>)>>]
    @@ ("Id[int]" :> <<Call("c", <<>>)>>) @@ ("Id" :> <<Call("d", <<>>)>>)

\* main is drawn; a calls b.
RootPrograms ==
  {[main |-> m, a |-> <<Call("b", <<>>)>>] @@ Chain :
     m \in Bodies({<<Call(g, <<>>)>> : g \in {"a", "b", "Id[int]"}}, MaxBody)}

\* Every roots list of at most MaxRoots entries, nil entries included.
InitRoots == InitWith(SeqsUpTo({NoFunc, "main", "d"}, MaxRoots), RootPrograms, {FALSE})

SpecRoots == InitRoots /\ [][Next]_vars

\* ---------- function values and dynamic calls

\* main takes the address of a, of a and b, and calls function values; a is
\* drawn too (it may print a K, take the address of c, or call a function
\* value); b converts a K to any.
DynPrograms ==
  {[main |-> m, a |-> x, b |-> <<MakeInterface("K", "any", Val)>>, c |-> <<>>,
    d |-> <<Call("c", <<>>)>>]
     @@ ("Id[int]" :> <<Call("c", <<>>)>>) @@ ("Id" :> <<Call("d", <<>>)>>) :
     m \in Bodies({<<Other(<<FnVal("a")>>)>>, <<Other(<<FnVal("a"), FnVal("b")>>)>>,
                   <<DynCall("func()", <<>>)>>, <<DynCall("func(int)", <<FnVal("Id[int]")>>)>>},
                  MaxBody),
     x \in Bodies({<<MakeInterface("K", "any", Val), Call("fmt.Println", <<Val>>)>>,
                   <<Other(<<FnVal("c")>>)>>, <<DynCall("func(int)", <<>>)>>}, MaxBody)}

InitDyn == InitWith({<<"main">>}, DynPrograms, BOOLEAN)

SpecDyn == InitDyn /\ [][Next]_vars

\* ---------- interface conversions and invokes

\* main converts *F, *B, Box (a generic type) and K to interfaces, invokes
\* W.Write and M.mark and calls a; a is one instruction or empty.
IfacePrograms ==
  {[main |-> m, a |-> x] @@ Chain :
     m \in Bodies({<<MakeInterface(PtrTo("F"), "W", Val)>>, <<MakeInterface(PtrTo("B"), "W", Val)>>,
                   <<MakeInterface("Box", "W", Val)>>, <<MakeInterface("K", "S", Val)>>,
                   <<MakeInterface(PtrTo("F"), "any", Val)>>,
                   <<Invoke("W", "Write")>>, <<Invoke("M", "mark")>>, <<Call("a", <<>>)>>},
                  MaxBody),
     x \in {<<>>, <<Invoke("W", "Write")>>, <<MakeInterface(PtrTo("F"), "W", Val)>>}}

InitIface == InitWith({<<"main">>}, IfacePrograms, {FALSE})

SpecIface == InitIface /\ [][Next]_vars

\* ---------- finalizers

\* runtime.SetFinalizer(x, h) as the SSA builder emits it (h converted to any
\* first), with a closure, with a function operand, with one argument, with a
\* second argument that is no function; a call of a func(*F) value; a call of a.
FinalizerGroups ==
  {<<MakeInterface("func(*F)", "any", FnVal("h")),
     Call("runtime.SetFinalizer", <<Val, IfaceOf(FnVal("h"))>>)>>,
   <<Other(<<FnVal("main$1")>>), MakeInterface("func(*F)", "any", ClosureVal("main$1")),
     Call("runtime.SetFinalizer", <<Val, IfaceOf(ClosureVal("main$1"))>>)>>,
   <<Call("runtime.SetFinalizer", <<Val, FnVal("h")>>)>>,
   <<Call("runtime.SetFinalizer", <<Val, ClosureVal("main$1")>>)>>,
   <<Call("runtime.SetFinalizer", <<Val>>)>>,
   <<Call("runtime.SetFinalizer", <<Val, IfaceOf(Val)>>)>>,
   <<DynCall("func(*F)", <<>>)>>,
   <<Call("a", <<>>)>>}

FinalizerPrograms ==
  {[main |-> m, a |-> x] @@ Chain :
     m \in Bodies(FinalizerGroups, MaxBody),
     x \in {<<>>, <<Call("runtime.SetFinalizer", <<Val, FnVal("h")>>)>>}}

InitFinalizer == InitWith({<<"main">>}, FinalizerPrograms, {FALSE})

SpecFinalizer == InitFinalizer /\ [][Next]_vars

\* ---------- conversions to the empty interface

\* A K, an F (whose field is a K) or a pointer to an interface converted to
\* any, alone or as the argument of json.Marshal or fmt.Println; a K
\* converted to S; a call of a.
ReflectGroups ==
  {<<MakeInterface("K", "any", Val), Call("encoding/json.Marshal", <<IfaceOf(Val)>>)>>,
   <<MakeInterface("K", "any", Val), Call("fmt.Println", <<IfaceOf(Val)>>)>>,
   <<MakeInterface("K", "any", Val)>>,
   <<MakeInterface("F", "any", Val)>>,
   <<MakeInterface("K", "S", Val)>>,
   <<MakeInterface(PtrTo("M"), "any", Val)>>,
   <<MakeInterface(PtrTo("W"), "any", Val)>>,
   <<Call("a", <<>>)>>}

\* main is drawn from the groups; a is empty or one of four of them.
ReflectPrograms ==
  {[main |-> m, a |-> x] @@ Chain :
     m \in Bodies(ReflectGroups, MaxBody),
     x \in {<<>>, <<MakeInterface("K", "any", Val)>>,
            <<MakeInterface(PtrTo("M"), "any", Val)>>,
            <<MakeInterface(PtrTo("W"), "any", Val)>>,
            <<MakeInterface("K", "any", Val),
              Call("encoding/json.Marshal", <<IfaceOf(Val)>>)>>}}

InitReflect == InitWith({<<"main">>}, ReflectPrograms, {FALSE})

SpecReflect == InitReflect /\ [][Next]_vars

\* ---------- recursion: in the call graph and in the types

\* main calls a, itself or the instantiation Id[int], converts a B (whose
\* field is a *B) or a *B, or takes the address of a and calls a func() value;
\* a is empty, calls main, calls itself and b, or takes its own address.
TermPrograms ==
  {[main |-> m, a |-> x] @@ Chain :
     m \in Bodies({<<Call("a", <<>>)>>, <<Call("main", <<>>)>>, <<Call("Id[int]", <<>>)>>,
                   <<MakeInterface("B", "any", Val)>>,
                   <<MakeInterface(PtrTo("B"), "W", Val)>>,
                   <<Other(<<FnVal("a")>>), DynCall("func()", <<>>)>>},
                  MaxBody),
     x \in {<<>>, <<Call("main", <<>>)>>, <<Call("a", <<>>), Call("b", <<>>)>>,
            <<Other(<<FnVal("a")>>), Call("a", <<>>)>>}}

InitTerm == InitWith({<<"main">>}, TermPrograms, {FALSE})

\* Analyze is one sequential loop that runs on until it returns: a step
\* that can be taken is taken.
SpecTerm == InitTerm /\ [][Next]_vars /\ WF_vars(Next)

\* ---------- invoke sites and types that arrive in either order

\* main invokes S.String, M.mark or WC.Write, asserts a value to W (which
\* builds the index of user types), converts a K to M or a *F to W, and then
\* calls a; a is empty, invokes M.mark and converts a K to M, invokes
\* WC.Close, or converts a K to M.
SitePrograms ==
  {[main |-> m \o <<Call("a", <<>>)>>, a |-> x] @@ Chain :
     m \in Bodies({<<Invoke("S", "String")>>, <<Invoke("M", "mark")>>,
                   <<Invoke("WC", "Write")>>, <<TypeAssert("any", "W")>>,
                   <<MakeInterface("K", "M", Val)>>,
                   <<MakeInterface(PtrTo("F"), "W", Val)>>},
                  MaxBody),
     x \in {<<>>, <<Invoke("M", "mark"), MakeInterface("K", "M", Val)>>,
            <<Invoke("WC", "Close")>>, <<MakeInterface("K", "M", Val)>>}}

InitSite == InitWith({<<"main">>}, SitePrograms, {FALSE})

SpecSite == InitSite /\ [][Next]_vars

\* ---------- type assertions in user code and in the standard library

\* main asserts a value to S or to WC, asserts a W to *B, invokes S.String or
\* WC.Write, or converts a *F or a K to the empty interface and passes it to
\* fmt.Println; fmt.Println is empty or asserts its argument to WC or to S.
AssertPrograms ==
  {[main |-> m] @@ ("fmt.Println" :> x) @@ Chain :
     m \in Bodies({<<TypeAssert("any", "S")>>, <<TypeAssert("any", "WC")>>,
                   <<TypeAssert("W", PtrTo("B"))>>,
                   <<Invoke("S", "String")>>, <<Invoke("WC", "Write")>>,
                   <<MakeInterface(PtrTo("F"), "any", Val),
                     Call("fmt.Println", <<IfaceOf(Val)>>)>>,
                   <<MakeInterface("K", "any", Val),
                     Call("fmt.Println", <<IfaceOf(Val)>>)>>},
                  MaxBody),
     x \in {<<>>, <<TypeAssert("any", "WC")>>, <<TypeAssert("any", "S")>>}}

InitAssert == InitWith({<<"main">>}, AssertPrograms, {FALSE})

SpecAssert == InitAssert /\ [][Next]_vars

\* ---------- assertions to concrete types and interface conversions

\* main asserts a W to F, *B or Box, a WC to *F, or an M to K, converts an
\* interface value to S or to WC (ChangeInterface), or invokes S.String or
\* WC.Write.
ConvPrograms ==
  {[main |-> m] @@ Chain :
     m \in Bodies({<<TypeAssert("W", "F")>>, <<TypeAssert("W", PtrTo("B"))>>,
                   <<TypeAssert("W", "Box")>>, <<TypeAssert("WC", PtrTo("F"))>>,
                   <<TypeAssert("M", "K")>>,
                   <<ChangeInterface("S")>>, <<ChangeInterface("WC")>>,
                   <<Invoke("S", "String")>>, <<Invoke("WC", "Write")>>},
                  MaxBody)}

InitConv == InitWith({<<"main">>}, ConvPrograms, {FALSE})

SpecConv == InitConv /\ [][Next]_vars

\* ------------------------------------------------------------- properties

\* Analyze has returned r.result.
Returned == pc = "done" /\ result = "result"

\* R.reachable_functions, as a set.
ReachableFunctions == DOMAIN r.Reachable

\* Instruction n of f has been processed by visitFunc.
Processed(f, n) ==
  /\ f \in Range(scanned)
  /\ n \in DOMAIN body[f]
  /\ pc = "scan" /\ f = r.currentFunction => n < ip

\* The processed instructions, wherever they are.
ProcessedInstrs ==
  UNION {{body[f][n] : n \in {n \in DOMAIN body[f] : Processed(f, n)}} :
           f \in Range(scanned)}

\* C1 -- Transitive static reachability: when Analyze returns, every static
\* direct callee in the body of a scanned reachable function is in
\* reachable_functions.
C1_TransitiveStaticReachability ==
  Returned =>
    \A f \in Range(scanned) \cap ReachableFunctions :
      StaticCalleesOf(f) \subseteq ReachableFunctions

\* main -> a -> b -> c has been analysed.
C1_Witness ==
  /\ Returned
  /\ body["main"] = <<Call("a", <<>>)>>
  /\ body["a"] = <<Call("b", <<>>)>>
  /\ {"a", "b", "c"} \subseteq Range(scanned)

RECURSIVE StaticClosure(_)
\* The functions reachable from S through chains of static calls.
StaticClosure(S) ==
  LET next == S \cup UNION {StaticCalleesOf(f) : f \in S}
  IN IF next = S THEN S ELSE StaticClosure(next)

\* The origin templates of the instantiations in S.
TemplatesOf(S) == {Origin(f) : f \in {f \in S : Origin(f) # f}} \ {NoFunc}

\* Every instruction of the program is a static call without function
\* operands that registers no finalizer.
StaticOnly ==
  \A f \in Funcs : \A n \in DOMAIN body[f] :
    /\ body[f][n].op = "call"
    /\ body[f][n].f # "runtime.SetFinalizer"
    /\ \A k \in DOMAIN body[f][n].args : body[f][n].args[k] = Val

\* C2 -- Exactness on static-only programs: reachable_functions is exactly
\* the set of functions reachable from the roots through chains of static
\* calls together with the origin templates of the reachable instantiations,
\* so an isolated function is absent.
C2_StaticExactness ==
  Returned /\ StaticOnly =>
    ReachableFunctions =
      StaticClosure(Range(roots) \ {NoFunc})
        \cup TemplatesOf(StaticClosure(Range(roots) \ {NoFunc}))

\* An instantiation is reached through a, its template (whose body calls d)
\* is in the result, and d is not.
C2_Witness ==
  /\ Returned /\ StaticOnly
  /\ body["main"] = <<Call("a", <<>>)>>
  /\ {"a", "Id[int]", "Id", "c"} \subseteq ReachableFunctions
  /\ "d" \notin ReachableFunctions

\* C3 -- Root inclusion with nil tolerance: for every non-empty roots list,
\* whatever entries of it are nil (the first included), Analyze does not
\* fail and returns a Result whose reachable_functions holds every non-nil
\* root.
C3_RootInclusionNilTolerant ==
  Len(roots) > 0 =>
    /\ pc # "panic"
    /\ pc = "done" =>
         /\ result = "result"
         /\ \A n \in DOMAIN roots : roots[n] # NoFunc => roots[n] \in ReachableFunctions

\* C4 -- Analyze with an empty roots list returns nil, raises no error and
\* scans no function.
C4_EmptyRootsNil ==
  Len(roots) = 0 =>
    /\ pc \in {"start", "done"}
    /\ pc = "done" => result = "nil"
    /\ scanned = <<>>
    /\ ReachableFunctions = {}

\* Analyze has returned for an empty roots list.
C4_Witness == Len(roots) = 0 /\ pc = "done" /\ result = "nil"

\* visitFunc(f) as one step, every map iterated in the order o.
visitFunc(s, f, o) ==
  [FoldSeq(LAMBDA t, n : visitInstr(t, f, n, o),
           [s EXCEPT !.currentFunction = f],
           [n \in DOMAIN body[f] |-> n])
     EXCEPT !.currentFunction = NoFunc]

RECURSIVE drainWorklist(_, _)
\* "for len(r.worklist) > 0 { shadow, r.worklist = r.worklist, shadow[:0];
\*  for _, f := range shadow { r.visitFunc(f) } }".
drainWorklist(s, o) ==
  IF Len(s.worklist) = 0 THEN s
  ELSE drainWorklist(FoldSeq(LAMBDA t, f : visitFunc(t, f, o),
                             [s EXCEPT !.worklist = <<>>], s.worklist), o)

\* The rta struct when Analyze returns for the program and roots of this
\* state, every map iterated in the order o.
AnalyzeIn(o) ==
  drainWorklist(
    FoldSeq(LAMBDA t, root : addReachable(t, root, FALSE),
            NewRTA(IF hasReflect THEN "(reflect.Value).Call" ELSE NoFunc), roots),
    o)

\* The three sets of a Result.
ResultSets(s) == <<DOMAIN s.Reachable, s.ReachableObjects, DOMAIN s.RuntimeTypes>>

\* C5 -- Determinism: for a fixed program and root set the final
\* reachable_functions, reachable_objects and runtime_types are the same sets
\* whatever order the hash-map iterations take; here, the sets of every run
\* are those of the run that iterates every map in its first order.
C5_Determinism ==
  Returned => ResultSets(r) = ResultSets(AnalyzeIn([start |-> 0, rev |-> FALSE]))

\* C6 -- Address-taken propagation: after every processed instruction, for
\* every signature with a recorded dynamic call site, every function recorded
\* as address-taken with that signature is in reachable_functions with
\* addr_taken = true.
C6_AddrTakenSaturation ==
  \A S \in DOMAIN r.dynCallSites :
    Len(r.dynCallSites[S]) > 0 =>
      \A f \in At(r.addrTakenFuncsBySig, S, {}) :
        f \in ReachableFunctions /\ r.Reachable[f]

\* Both orders of discovery in one run: main takes the address of a and then
\* calls a func() value; a calls a func(int) value and then takes the address
\* of c.
C6_Witness ==
  /\ Returned
  /\ body["main"] = <<Other(<<FnVal("a")>>), DynCall("func()", <<>>)>>
  /\ body["a"] = <<DynCall("func(int)", <<>>), Other(<<FnVal("c")>>)>>
  /\ "c" \in At(r.addrTakenFuncsBySig, "func(int)", {})
  /\ r.Reachable["c"]

\* The method of T that a selection stands for is in the result.
InResult(sel) ==
  /\ sel # NoSel
  /\ IF sel.fn # NoFunc THEN sel.fn \in ReachableFunctions
     ELSE sel.obj \in r.ReachableObjects

\* C7 -- Interface dispatch propagation: when Analyze returns, for every
\* scanned make-interface of a concrete type T to a non-empty interface I and
\* every scanned invoke of I.m, the concrete method of T satisfying m is in
\* reachable_functions, or in reachable_objects when it has no SSA function.
C7_InterfaceDispatch ==
  Returned =>
    \A x, y \in ProcessedInstrs :
      /\ x.op = "mkiface" /\ ~IsInterface(x.t) /\ Len(IfaceMethods(x.to)) > 0
      /\ y.op = "invoke" /\ y.t = x.to
      => InResult(Lookup(MethodSet(x.t), UserPath, y.m))

\* The invoke is processed before the conversion of *B, and the generic
\* type's method has no SSA function.
C7_Witness ==
  /\ Returned
  /\ body["main"] = <<Invoke("W", "Write"), MakeInterface(PtrTo("B"), "W", Val)>>
  /\ MethodFunc(PtrTo("B"), "Write") \in ReachableFunctions

\* The interfaces T is converted to by processed instructions.
ConvertedTo(T) ==
  {x.to : x \in {x \in ProcessedInstrs : x.op = "mkiface" /\ x.t = T}}

\* T is converted, and only to non-empty interfaces; nothing is converted to
\* the empty interface; no type assertion or change-interface involves an
\* interface T implements.
OnlyNonEmptyConversions(T) ==
  /\ ConvertedTo(T) # {}
  /\ \A x \in ProcessedInstrs :
       /\ x.op = "mkiface" => Len(IfaceMethods(x.to)) > 0
       /\ x.op \in {"assert", "chgiface"} =>
            /\ ~(IsInterface(x.to) /\ Implements(T, x.to))
            /\ ~(IsInterface(x.t) /\ Implements(T, x.t))

\* The method names the interfaces T is converted to require.
RequiredOf(T) == UNION {Range(IfaceMethods(I)) : I \in ConvertedTo(T)}

\* No method of T outside RequiredOf(T) that is not called statically is in
\* reachable_functions.
OnlyRequiredReachable(T) ==
  \A n \in DOMAIN MethodSet(T) :
    /\ MethodSet(T)[n].name \notin RequiredOf(T)
    /\ \A x \in ProcessedInstrs : x.op = "call" => x.f # MethodSet(T)[n].fn
    => MethodSet(T)[n].fn \notin ReachableFunctions

\* No processed invoke goes through an interface T implements for a method
\* outside RequiredOf(T).
NoOtherInvoke(T) ==
  \A y \in ProcessedInstrs :
    y.op = "invoke" /\ Implements(T, y.t) => y.m \in RequiredOf(T)

\* C8 as stated -- Non-empty interface precision: if T is converted only to
\* a non-empty interface (no conversion to the empty interface, no type
\* assertion or change-interface involving an interface T implements, no
\* static call to the method), a method of T the interface does not require
\* is not in reachable_functions.
C8_Stated ==
  Returned =>
    \A T \in NamedTypes \cup PtrTypes :
      OnlyNonEmptyConversions(T) => OnlyRequiredReachable(T)

\* C8 -- Non-empty interface precision, with the condition the statement
\* leaves out: if T is converted only to non-empty interfaces and, besides,
\* no invoke goes through another interface T implements, a method of T those
\* interfaces do not require is not in reachable_functions.
C8_NonEmptyPrecision ==
  Returned =>
    \A T \in NamedTypes \cup PtrTypes :
      OnlyNonEmptyConversions(T) /\ NoOtherInvoke(T) => OnlyRequiredReachable(T)

\* *F{Write,Close} and *B{Write,Flush} are converted to W{Write}: both Write
\* methods are reachable.
C8_Witness ==
  /\ Returned
  /\ OnlyNonEmptyConversions(PtrTo("F")) /\ NoOtherInvoke(PtrTo("F"))
  /\ OnlyNonEmptyConversions(PtrTo("B")) /\ NoOtherInvoke(PtrTo("B"))
  /\ MethodFunc(PtrTo("F"), "Write") \in ReachableFunctions
  /\ MethodFunc(PtrTo("B"), "Write") \in ReachableFunctions

C10_FinalizerInclusion ==
  \A x \in ProcessedInstrs :
    /\ x.op = "call" /\ x.f = "runtime.SetFinalizer"
    /\ Len(x.args) >= 2
    /\ x.args[2].v \in {"fn", "closure"}
    => x.args[2].f \in ReachableFunctions /\ r.Reachable[x.args[2].f]

\* h, converted to any, is registered and the program has no dynamic call.
C10_Witness ==
  /\ Returned
  /\ Call("runtime.SetFinalizer", <<Val, IfaceOf(FnVal("h"))>>) \in ProcessedInstrs
  /\ DOMAIN r.dynCallSites = {}
  /\ r.Reachable["h"]

\* The allow-listed functions that function f calls.
ConsumersOf(f) == StaticCalleesOf(f) \cap DOMAIN knownSafeFunctions

\* The positions <<f, n>> of the processed instructions.
ProcessedAt ==
  UNION {{<<f, n>> : n \in {n \in DOMAIN body[f] : Processed(f, n)}} :
           f \in Range(scanned)}

\* The scanned instructions <<f, n>> that convert a T to the empty interface.
EmptyConversions(T) ==
  {p \in ProcessedAt :
     /\ body[p[1]][p[2]].op = "mkiface"
     /\ body[p[1]][p[2]].t = T
     /\ body[p[1]][p[2]].to = "any"}

\* Every scanned conversion is one of a T to the empty interface, in a
\* function whose only allow-listed callee is F, and there is one.
OnlyConsumerConversions(T, F) ==
  /\ EmptyConversions(T) # {}
  /\ \A p \in ProcessedAt :
       body[p[1]][p[2]].op = "mkiface" =>
         p \in EmptyConversions(T) /\ ConsumersOf(p[1]) = {F}

\* The methods of T's method set that are in the result.
MarkedMethods(T) == {sel \in Range(MethodSet(T)) : InResult(sel)}

\* C11 -- Reflection-consumer precision: when Analyze returns and the only
\* conversions scanned are conversions of K to the empty interface in
\* functions that pass it to one allow-listed function F, the methods of K in
\* the result are exactly K's methods named in F's allow-list entry.
C11_ConsumerPrecision ==
  \A F \in {"encoding/json.Marshal", "fmt.Println"} :
    Returned /\ OnlyConsumerConversions("K", F) =>
      MarkedMethods("K") =
        {sel \in Range(MethodSet("K")) : sel.name \in Range(knownSafeFunctions[F])}

\* (K).String is in the result although json.Marshal's entry does not name it.
C11_Witness ==
  /\ Returned
  /\ OnlyConsumerConversions("K", "encoding/json.Marshal")
  /\ "(K).String" \in ReachableFunctions
  /\ "(K).Other" \notin ReachableFunctions

\* The interfaces I whose pointer type *I a processed instruction converts to
\* the empty interface.
PointerConverted ==
  {I \in IfaceTypes :
     \E p \in ProcessedAt :
       /\ body[p[1]][p[2]].op = "mkiface"
       /\ body[p[1]][p[2]].t = PtrTo(I)
       /\ body[p[1]][p[2]].to = "any"}

\* The method called name that T declares: in T's method set, or else in *T's.
MethodOn(T, name) ==
  IF Lookup(MethodSet(T), UserPath, name) # NoSel
  THEN Lookup(MethodSet(T), UserPath, name)
  ELSE Lookup(MethodSet(PtrTo(T)), UserPath, name)

\* The named concrete types T such that T or *T implements I.
ImplementorsOf(I) ==
  {T \in NamedTypes : Implements(T, I) \/ Implements(PtrTo(T), I)}

\* C12 -- Pointer-to-interface propagation: when Analyze returns and a scanned
\* function converted a pointer to interface I to the empty interface, then for
\* every named concrete type T such that T or *T implements I, every method
\* of I on T (exported or not, value or pointer receiver) is in the result.
C12_PointerToInterface ==
  Returned =>
    \A I \in PointerConverted : \A T \in ImplementorsOf(I) :
      \A n \in DOMAIN IfaceMethods(I) : InResult(MethodOn(T, IfaceMethods(I)[n]))

\* *M was converted where K was no runtime type yet, and the unexported
\* (K).mark is not in the result.
C12_Witness ==
  /\ Returned
  /\ "M" \in PointerConverted
  /\ "(K).mark" \notin ReachableFunctions

\* The positions of the processed conversions of a concrete type (no pointer to
\* an interface) to the empty interface in functions that call no allow-listed
\* function.
FallbackConversions ==
  {p \in ProcessedAt :
     /\ body[p[1]][p[2]].op = "mkiface"
     /\ body[p[1]][p[2]].to = "any"
     /\ ~IsInterface(body[p[1]][p[2]].t)
     /\ ~(Kind(body[p[1]][p[2]].t) = "ptr" /\ IsInterface(Elem(body[p[1]][p[2]].t)))
     /\ ConsumersOf(p[1]) = {}}

\* C13 -- Conservative fallback: when Analyze returns, for every scanned
\* conversion of a concrete type T to the empty interface in a function that
\* calls no allow-listed function, every exported method of T's method set is
\* in reachable_functions (or reachable_objects), whatever made T a runtime
\* type first.
C13_ConservativeFallback ==
  Returned =>
    \A p \in FallbackConversions :
      \A sel \in Range(MethodSet(body[p[1]][p[2]].t)) :
        Exported(sel.name) => InResult(sel)

\* K was converted to any outside an allow-list context after it had become a
\* runtime type as the field of F, and (K).Other is not in the result.
C13_Witness ==
  /\ Returned
  /\ body["main"] = <<MakeInterface("F", "any", Val), MakeInterface("K", "any", Val)>>
  /\ "(K).Other" \notin ReachableFunctions

\* Every function Analyze has taken or will take from the worklist: scanned
\* already, waiting in the shadow buffer, or in the worklist.
Enqueued == scanned \o SubSeq(shadow, IF pc = "scan" THEN i + 1 ELSE i, Len(shadow)) \o r.worklist

\* No function occurs twice in q.
NoDuplicates(q) == \A m, n \in DOMAIN q : q[m] = q[n] => m = n

\* C14 -- Termination: Analyze returns in every run, also for programs with
\* recursive calls and self-referential types; no function is enqueued twice.
C14_Termination == <>(pc = "done") /\ [](pc # "start" => NoDuplicates(Enqueued))

\* Analyze has returned for a program in which main calls itself and the
\* self-referential type B was materialised.
C14_Witness ==
  /\ Returned
  /\ "main" \in StaticCalleesOf("main")
  /\ {"B", PtrTo("B"), StructOf("B")} \subseteq DOMAIN r.RuntimeTypes

\* How often visitFunc was called on f.
TimesScanned(f) == Cardinality({n \in DOMAIN scanned : scanned[n] = f})

AddReachableFrame ==
  \A f \in ReachableFunctions : \A b \in BOOLEAN :
    addReachable(r, f, b) = [r EXCEPT !.Reachable[f] = r.Reachable[f] \/ b]

\* reachable_functions only grows and no addr_taken flag goes back to false.
ReachableGrows ==
  /\ ReachableFunctions \subseteq DOMAIN r'.Reachable
  /\ \A f \in ReachableFunctions : r.Reachable[f] => r'.Reachable[f]

\* C16 -- Monotonicity of the reachable set: marking a function that is
\* already in reachable_functions leaves the worklist and every other table
\* unchanged and sets addr_taken to (previous OR requested); no step removes
\* a function from reachable_functions or resets an addr_taken flag.
C16_ReachableMonotone == []AddReachableFrame /\ [][ReachableGrows]_vars

\* main called a and then called a function value after taking a's address:
\* a is in reachable_functions with addr_taken raised, and enqueued once.
C16_Witness ==
  /\ pc = "scan" /\ r.currentFunction = "main" /\ ip = 4
  /\ body["main"] = <<Call("a", <<>>), Other(<<FnVal("a")>>), DynCall("func()", <<>>)>>
  /\ r.Reachable["a"]
  /\ r.worklist = <<"a">>

\* The instruction visitFunc processes next, if there is one.
AtInstr == pc = "scan" /\ ip <= Len(body[r.currentFunction])

\* The concrete type that the next step makes a runtime type with skip = false:
\* the operand type of a MakeInterface (addRuntimeType, addRuntimeTypeSelective
\* or addRuntimeTypeForInterface is called on it with skip = false) when it is
\* no runtime type yet.  The flag stored for it may be true afterwards: the
\* structural recursion reaches the type again with skip = true.
NewFullTypes ==
  IF /\ AtInstr
     /\ body[r.currentFunction][ip].op = "mkiface"
     /\ ~IsInterface(body[r.currentFunction][ip].t)
     /\ ~(Kind(body[r.currentFunction][ip].t) = "ptr"
            /\ IsInterface(Elem(body[r.currentFunction][ip].t)))
     /\ body[r.currentFunction][ip].t \notin DOMAIN r.RuntimeTypes
  THEN {body[r.currentFunction][ip].t}
  ELSE {}

\* The invoke sites recorded in state s, as <<interface, method name>>.
SitesOf(s) ==
  UNION {{<<I, s.invokeSites[I][n].m>> : n \in DOMAIN s.invokeSites[I]} :
           I \in DOMAIN s.invokeSites}

\* The method of T that a site on I.m calls is in the result of the next state.
MarkedNext(T, m) ==
  LET sel == Lookup(MethodSet(T), UserPath, m)
  IN IF sel.fn # NoFunc THEN sel.fn \in DOMAIN r'.Reachable
     ELSE sel.obj \in r'.ReachableObjects

\* C17 -- Table B, new type against known sites: in every step in which a
\* concrete type T becomes a runtime type with skip = false, for every invoke
\* site recorded so far on an interface that T implements, the method of T
\* for that site is marked reachable.
C17_NewTypeKnownSites ==
  [][\A T \in NewFullTypes : \A site \in SitesOf(r) :
       Implements(T, site[1]) => MarkedNext(T, site[2])]_vars

\* K has been converted to M and become a runtime type in a after a site on
\* S.String was recorded in main, and (K).String is not in the result.
C17_Witness ==
  /\ pc = "scan" /\ r.currentFunction = "a" /\ ip = 3
  /\ body["a"] = <<Invoke("M", "mark"), MakeInterface("K", "M", Val)>>
  /\ "K" \in DOMAIN r.RuntimeTypes
  /\ <<"S", "String">> \in SitesOf(r)
  /\ "(K).String" \notin ReachableFunctions

\* The processed MakeInterface instructions, as positions <<f, n>>.
Conversions == {p \in ProcessedAt : body[p[1]][p[2]].op = "mkiface"}

\* Position p was processed before position q.
Before(p, q) ==
  LET at(f) == CHOOSE k \in DOMAIN scanned : scanned[k] = f
  IN at(p[1]) < at(q[1]) \/ (p[1] = q[1] /\ p[2] < q[2])

\* The concrete type that the first MakeInterface processed has converted: no
\* type was a runtime type before, so it entered with skip = false.
EnteredFull ==
  {body[p[1]][p[2]].t :
     p \in {p \in Conversions :
              /\ ~IsInterface(body[p[1]][p[2]].t)
              /\ \A q \in Conversions : q = p \/ Before(p, q)}}

\* C18 -- Table B, new site against known types: in every step that records
\* an invoke site on I.m, for every concrete type T that is already a runtime
\* type entered with skip = false and implements I, the method m of T is
\* marked reachable -- also when an earlier invoke on I had computed the
\* implementations of I before T became a runtime type.
C18_NewSiteKnownTypes ==
  [][AtInstr /\ body[r.currentFunction][ip].op = "invoke" =>
       \A T \in EnteredFull \cap DOMAIN r.RuntimeTypes :
         Implements(T, body[r.currentFunction][ip].t) =>
           MarkedNext(T, body[r.currentFunction][ip].m)]_vars

\* The site on WC.Close was recorded after *F had become a runtime type and
\* after a site on WC.Write, and (*F).Close is not in the result.
C18_Witness ==
  /\ Returned
  /\ PtrTo("F") \in EnteredFull \cap DOMAIN r.RuntimeTypes
  /\ {<<"WC", "Write">>, <<"WC", "Close">>} \subseteq SitesOf(r)
  /\ "(*F).Close" \notin ReachableFunctions

\* The processed type-asserts to a non-empty interface, as positions <<f, n>>,
\* in functions of the standard library (stdlib) or outside it.
InterfaceAsserts(stdlib) ==
  {p \in ProcessedAt :
     /\ body[p[1]][p[2]].op = "assert"
     /\ IsInterface(body[p[1]][p[2]].to)
     /\ Len(IfaceMethods(body[p[1]][p[2]].to)) > 0
     /\ isStdlibFunction(p[1]) = stdlib}

\* The methods of interface I that the method set of T has.
MethodsFound(T, I) ==
  {Lookup(MethodSet(T), UserPath, IfaceMethods(I)[n]) : n \in DOMAIN IfaceMethods(I)}
    \ {NoSel}

\* The named concrete types declared outside the standard library.
UserNamedTypes == {T \in NamedTypes : hasModulePath(TypePkg(T))}

\* C19 -- Type-assert to interface in user code: once a function outside the
\* standard library has been scanned up to and past a type-assert to a
\* non-empty interface I, for every named concrete type T of the program with
\* T or *T implementing I, every method of I found on T or on *T is in
\* reachable_functions (or reachable_objects), whether or not an invoke site
\* on I was recorded before.
C19_UserAssertMarksAll ==
  \A p \in InterfaceAsserts(FALSE) :
    \A T \in UserNamedTypes :
      LET I == body[p[1]][p[2]].to
      IN Implements(T, I) \/ Implements(PtrTo(T), I) =>
           \A sel \in MethodsFound(T, I) \cup MethodsFound(PtrTo(T), I) : InResult(sel)

\* main has asserted a value to S with no invoke site on S recorded, K
\* implements S, and (K).String is not in the result.
C19_Witness ==
  /\ Returned
  /\ body["main"] = <<TypeAssert("any", "S")>>
  /\ <<"main", 1>> \in InterfaceAsserts(FALSE)
  /\ Implements("K", "S")
  /\ "(K).String" \notin ReachableFunctions

\* The next step processes a type-assert to a non-empty interface in a
\* function of the standard library.
AtStdlibAssert ==
  /\ AtInstr
  /\ isStdlibFunction(r.currentFunction)
  /\ body[r.currentFunction][ip].op = "assert"
  /\ IsInterface(body[r.currentFunction][ip].to)
  /\ Len(IfaceMethods(body[r.currentFunction][ip].to)) > 0

\* The methods of interface I found on T or *T for the types T that are in
\* runtime_types now.
RuntimeMethods(I) ==
  UNION {MethodsFound(T, I) \cup MethodsFound(PtrTo(T), I) : T \in DOMAIN r.RuntimeTypes}

\* C20 -- Type-assert to interface in stdlib code: a step that processes a
\* type-assert to a non-empty interface I in a function of a standard-library
\* package adds to reachable_functions and reachable_objects only methods of
\* I on types that are in runtime_types at that moment; a type implementing I
\* that is not in runtime_types gets no method marked by the assertion.
C20_StdlibAssertRuntimeOnly ==
  [][AtStdlibAssert =>
       LET I == body[r.currentFunction][ip].to
       IN /\ DOMAIN r'.Reachable \ DOMAIN r.Reachable
               \subseteq {sel.fn : sel \in RuntimeMethods(I)}
          /\ r'.ReachableObjects \ r.ReachableObjects
               \subseteq {sel.obj : sel \in RuntimeMethods(I)}
          /\ r'.RuntimeTypes = r.RuntimeTypes]_vars

\* fmt.Println has asserted its argument to WC: (*F).Close is marked for the
\* runtime type *F, and (F).Write is not marked for F, which is no runtime
\* type although *F implements WC.
C20_Witness ==
  /\ pc = "scan" /\ r.currentFunction = "fmt.Println" /\ ip = 2
  /\ body["fmt.Println"] = <<TypeAssert("any", "WC")>>
  /\ PtrTo("F") \in DOMAIN r.RuntimeTypes
  /\ "F" \notin DOMAIN r.RuntimeTypes
  /\ "F" \in Range(At(r.interfaceToTypes, "WC", <<>>))
  /\ "(*F).Close" \in ReachableFunctions
  /\ "(F).Write" \notin ReachableFunctions

\* The next step processes a type-assert from a non-empty interface to a
\* concrete type.
AtConcreteAssert ==
  /\ AtInstr
  /\ body[r.currentFunction][ip].op = "assert"
  /\ IsInterface(body[r.currentFunction][ip].t)
  /\ Len(IfaceMethods(body[r.currentFunction][ip].t)) > 0
  /\ ~IsInterface(body[r.currentFunction][ip].to)

\* The selection is in the result after the step.
InResultNext(sel) ==
  IF sel.fn # NoFunc THEN sel.fn \in DOMAIN r'.Reachable
  ELSE sel.obj \in r'.ReachableObjects

\* C21 -- Type-assert from interface to concrete: a step that processes a
\* type-assert of a value of non-empty interface type Is to a concrete type T
\* leaves every method of Is found in the method set of T or of *T in
\* reachable_functions (or reachable_objects), builds no index and inserts no
\* runtime type.
C21_AssertToConcrete ==
  [][AtConcreteAssert =>
       LET Is == body[r.currentFunction][ip].t
           T == body[r.currentFunction][ip].to
       IN /\ \A sel \in MethodsFound(T, Is) \cup MethodsFound(PtrTo(T), Is) :
               InResultNext(sel)
          /\ r'.userTypesIndexBuilt = r.userTypesIndexBuilt
          /\ r'.userTypes = r.userTypes
          /\ r'.interfaceToTypes = r.interfaceToTypes
          /\ r'.typeToInterfaces = r.typeToInterfaces
          /\ r'.RuntimeTypes = r.RuntimeTypes]_vars

\* main has asserted an M to K and a W to F with no index built and no runtime
\* type: the unexported (K).mark, (F).Write and the wrapper (*F).Write are in
\* the result, (*F).Close is not.
C21_Witness ==
  /\ Returned
  /\ body["main"] = <<TypeAssert("M", "K"), TypeAssert("W", "F")>>
  /\ {"(K).mark", "(F).Write", "(*F).Write"} \subseteq ReachableFunctions
  /\ "(*F).Close" \notin ReachableFunctions
  /\ ~r.userTypesIndexBuilt
  /\ DOMAIN r.RuntimeTypes = {}

\* The processed conversions to a non-empty interface (ChangeInterface), as
\* positions <<f, n>>.
InterfaceChanges ==
  {p \in ProcessedAt :
     /\ body[p[1]][p[2]].op = "chgiface"
     /\ IsInterface(body[p[1]][p[2]].to)
     /\ Len(IfaceMethods(body[p[1]][p[2]].to)) > 0}

\* C22 -- Change-interface: once a conversion of an interface value to a
\* non-empty interface It has been processed, for every concrete user type T
\* with T or *T implementing It, every method of It on T is in the result,
\* whether or not It had an invoke site recorded before.
C22_ChangeInterfaceMarksAll ==
  \A p \in InterfaceChanges :
    \A T \in UserNamedTypes :
      LET It == body[p[1]][p[2]].to
      IN Implements(T, It) \/ Implements(PtrTo(T), It) =>
           \A sel \in MethodsFound(T, It) : InResult(sel)

\* main has converted an interface value to S with no invoke site on S
\* recorded, K implements S, and (K).String is not in the result.
C22_Witness ==
  /\ Returned
  /\ body["main"] = <<ChangeInterface("S")>>
  /\ <<"main", 1>> \in InterfaceChanges
  /\ Implements("K", "S")
  /\ r.userTypesIndexBuilt
  /\ ReachableFunctions = {"main"}

\* The concrete types that enter runtime_types in the step.
NewRuntimeTypes ==
  {T \in DOMAIN r'.RuntimeTypes \ DOMAIN r.RuntimeTypes : ~IsInterface(T)}

\* After the step the index holds the pair of T and I in both directions.
IndexedNext(T, I) ==
  /\ T \in Range(At(r'.interfaceToTypes, I, <<>>))
  /\ I \in Range(At(r'.typeToInterfaces, T, <<>>))

\* After the step the index holds the pair of T and I in neither direction.
UnindexedNext(T, I) ==
  /\ T \notin Range(At(r'.interfaceToTypes, I, <<>>))
  /\ I \notin Range(At(r'.typeToInterfaces, T, <<>>))

\* C23 -- Incremental index update agrees with a full build: in every step
\* taken after the implementation index was built, every concrete type T that
\* newly enters runtime_types ends up with T in interfaceToTypes[I] and I in
\* typeToInterfaces[T] for exactly the known interfaces I that T or *T
\* implements.
C23_IncrementalIndex ==
  [][r.userTypesIndexBuilt =>
       \A T \in NewRuntimeTypes : \A I \in DOMAIN r'.interfaceTypes :
         IF Implements(T, I) \/ Implements(PtrTo(T), I)
         THEN IndexedNext(T, I) ELSE UnindexedNext(T, I)]_vars

\* main has built the index by an assertion and called a; a has recorded a
\* site on M.mark and converted a K to M: K has entered runtime_types and
\* implements the known interface M, and M is not in typeToInterfaces[K].
C23_Witness ==
  /\ pc = "scan" /\ r.currentFunction = "a" /\ ip = 3
  /\ body["main"] = <<TypeAssert("any", "W"), Call("a", <<>>)>>
  /\ body["a"] = <<Invoke("M", "mark"), MakeInterface("K", "M", Val)>>
  /\ r.userTypesIndexBuilt
  /\ "K" \in DOMAIN r.RuntimeTypes
  /\ Implements("K", "M")
  /\ "M" \in DOMAIN r.interfaceTypes
  /\ "M" \notin Range(At(r.typeToInterfaces, "K", <<>>))

\* The concrete types that can have methods (named types and pointers to
\* them), and one that has none.
ConcreteTypes == NamedTypes \cup {PtrTo(T) : T \in NamedTypes} \cup {"int"}

\* C24 -- Fingerprint soundness: for every concrete type C and interface I
\* such that the method set of C has every method of I, Fingerprint(I) AND NOT
\* Fingerprint(C) is 0 -- for the method sets of the program and for every
\* pair of infos the engine has stored, where the fast path of implements
\* then rejects no real implementer -- and an empty method set has
\* fingerprint 0.
C24_FingerprintSound ==
  /\ \A C \in ConcreteTypes : \A I \in IfaceTypes :
       Implements(C, I) =>
         AndNotIsZero(Fingerprint(MethodSet(I)), Fingerprint(MethodSet(C)))
  /\ \A C \in DOMAIN r.concreteTypes : \A I \in DOMAIN r.interfaceTypes :
       \/ AndNotIsZero(r.interfaceTypes[I].fprint, r.concreteTypes[C].fprint)
       \/ ~Implements(C, I)
  /\ \A C \in DOMAIN r.concreteTypes :
       MethodSet(C) = <<>> => r.concreteTypes[C].fprint = {}
  /\ Fingerprint(<<>>) = {}

\* The engine holds the infos of *F and of WC, which *F implements with two
\* methods, and the info of a type with no methods.
C24_Witness ==
  /\ PtrTo("F") \in DOMAIN r.concreteTypes
  /\ "WC" \in DOMAIN r.interfaceTypes
  /\ Implements(PtrTo("F"), "WC")
  /\ r.interfaceTypes["WC"].fprint = {25, 63}
  /\ \E C \in DOMAIN r.concreteTypes : MethodSet(C) = <<>>

\* The concrete types that were the direct operand of a processed
\* MakeInterface.
DirectOperands ==
  {body[p[1]][p[2]].t : p \in Conversions} \ IfaceTypes

\* Every direct operand in runtime_types has skip_methods = false.
OperandsNotSkipped ==
  \A T \in DirectOperands \cap DOMAIN r.RuntimeTypes : ~r.RuntimeTypes[T]

\* No entry of runtime_types changes from false to true in the step.
SkipNeverRaised ==
  \A T \in DOMAIN r.RuntimeTypes : ~r.RuntimeTypes[T] => ~r'.RuntimeTypes[T]

\* C25 -- Meaning of skip_methods: a type that was the direct operand of a
\* make-interface has skip_methods = false in runtime_types, so that
\* skip_methods = true appears only on types added solely as structural
\* components, and no step changes an entry from false to true.
C25_SkipMeaning == []OperandsNotSkipped /\ [][SkipNeverRaised]_vars

\* main has converted a K to the empty interface and nothing else, and the
\* result holds K with skip_methods = true.
C25_Witness ==
  /\ Returned
  /\ body["main"] = <<MakeInterface("K", "any", Val)>>
  /\ "K" \in DirectOperands
  /\ r.RuntimeTypes["K"]

\* The invoke sites recorded so far, as site records.
RecordedSites ==
  UNION {Range(r.invokeSites[I]) : I \in DOMAIN r.invokeSites}

\* The concrete runtime types.
RuntimeConcrete == {C \in DOMAIN r.RuntimeTypes : ~IsInterface(C)}

\* The method of the site is found neither in the method set of C nor in
\* that of *C (a pointer to a pointer has no methods).
ResolverMiss(site, C) ==
  /\ Lookup(MethodSet(C), UserPath, site.m) = NoSel
  /\ Kind(C) = "ptr" \/ Lookup(MethodSet(PtrTo(C)), UserPath, site.m) = NoSel

\* C26 -- Resolver miss is silent: in every state of the analysis, adding the
\* invoke edge for a recorded site and a concrete runtime type C whose method
\* sets (of C and of *C) lack the site's method leaves the engine state --
\* reachable_functions, reachable_objects, runtime_types, the worklist --
\* unchanged, and a loop over all the types gives what it gives over the
\* types that are no miss: it goes on to the next type after a miss.
C26_ResolverMissSilent ==
  \A site \in RecordedSites :
    /\ \A C \in RuntimeConcrete :
         ResolverMiss(site, C) => addInvokeEdge(r, site, C) = r
    /\ addSiteEdges([s |-> r, out |-> Canon(RuntimeConcrete)], site)
         = addSiteEdges([s |-> r,
                         out |-> Filter(LAMBDA C : ~ResolverMiss(site, C),
                                        Canon(RuntimeConcrete))], site)

\* A site on W.Write is recorded; K, which has no Write method, and *F,
\* which has one, are runtime types, and (*F).Write waits in the worklist.
C26_Witness ==
  /\ pc = "scan"
  /\ \E site \in RecordedSites :
       /\ site.m = "Write"
       /\ {"K", PtrTo("F")} \subseteq RuntimeConcrete
       /\ ResolverMiss(site, "K")
       /\ ~ResolverMiss(site, PtrTo("F"))
  /\ "(*F).Write" \in Range(r.worklist)

\* The functions that are operands of the instruction (address-taken there).
OperandFns(instr) ==
  {instr.args[n].f :
     n \in {k \in DOMAIN instr.args : instr.args[k].v = "fn" /\ ~instr.args[k].wrapped}}

\* The functions that are operands of some processed instruction.
AddrTakenOperands ==
  UNION {OperandFns(body[p[1]][p[2]]) : p \in ProcessedAt}

\* With reflect imported, every address-taken operand of a processed
\* instruction is in reachable_functions with addr_taken = true.
ReflectMarksAll ==
  hasReflect /\ pc # "start" =>
    \A g \in AddrTakenOperands : g \in ReachableFunctions /\ r.Reachable[g]

\* Without reflect, a step makes an operand function newly reachable only
\* when a dynamic call site of its signature is recorded.
NoReflectMarksNothing ==
  ~hasReflect /\ AtInstr =>
    \A g \in OperandFns(body[r.currentFunction][ip]) :
      g \in DOMAIN r'.Reachable \ DOMAIN r.Reachable =>
        At(r'.dynCallSites, Signature(g), <<>>) # <<>>

\* C27 -- Reflective call rule: if the program imports reflect, every function
\* met as an address-taken operand in a scanned function is in
\* reachable_functions with addr_taken = true, whatever its signature, with no
\* dynamic call site and with reflect.Value.Call itself unreachable; if
\* reflect is not imported, the rule marks nothing.
C27_ReflectiveCallRule == []ReflectMarksAll /\ [][NoReflectMarksNothing]_vars

\* reflect is imported, main only takes the address of a, no dynamic call
\* site exists, (reflect.Value).Call is not reachable, and a is in the result
\* with addr_taken = true.
C27_Witness ==
  /\ Returned
  /\ hasReflect
  /\ body["main"] = <<Other(<<FnVal("a")>>)>>
  /\ DOMAIN r.dynCallSites = {}
  /\ "(reflect.Value).Call" \notin ReachableFunctions
  /\ "a" \in ReachableFunctions /\ r.Reachable["a"]

\* Every type with an info in concreteTypes is in runtime_types.
ConcreteAreRuntime == DOMAIN r.concreteTypes \subseteq DOMAIN r.RuntimeTypes

\* The SSA functions of the methods of T and of *T.
MethodFuncsOf(T) ==
  {MethodSet(T)[n].fn : n \in DOMAIN MethodSet(T)}
    \cup (IF Kind(T) = "ptr" THEN {}
          ELSE {MethodSet(PtrTo(T))[n].fn : n \in DOMAIN MethodSet(PtrTo(T))})

\* A step that processes an invoke makes reachable only methods of types that
\* are in runtime_types.
InvokeMarksRuntimeOnly ==
  AtInstr /\ body[r.currentFunction][ip].op = "invoke" =>
    DOMAIN r'.Reachable \ DOMAIN r.Reachable
      \subseteq UNION {MethodFuncsOf(T) : T \in RuntimeConcrete}

\* C28 -- Invoke edges go only to runtime types: at every point of the
\* analysis every type held in concreteTypes has entered runtime_types, so an
\* interface invoke never marks a method of a type that is no runtime type,
\* also after the user-type index has been built.
C28_InvokeOnlyRuntimeTypes == []ConcreteAreRuntime /\ [][InvokeMarksRuntimeOnly]_vars

\* main has built the index by an assertion and then invoked S.String:
\* (K).String is in the result and K never became a runtime type.
C28_Witness ==
  /\ Returned
  /\ body["main"] = <<TypeAssert("any", "W"), Invoke("S", "String"), Call("a", <<>>)>>
  /\ body["a"] = <<>>
  /\ "K" \in DOMAIN r.concreteTypes
  /\ DOMAIN r.RuntimeTypes = {}
  /\ "(K).String" \in ReachableFunctions

\* g is reached by nothing but address-taking: it is no root, no static
\* callee in a scanned function, and no dynamic call site of its signature is
\* recorded.
OnlyAddrTaken(g) ==
  /\ g \in AddrTakenOperands
  /\ g \notin Range(roots)
  /\ \A f \in Range(scanned) : g \notin StaticCalleesOf(f)
  /\ At(r.dynCallSites, Signature(g), <<>>) = <<>>

\* C29 -- Address-taking alone does not make a function reachable: when
\* Analyze returns for a program that does not import reflect, a function g
\* that appears only as a function-value operand, with no dynamic call site
\* of its signature in a scanned function, is not in reachable_functions and
\* its body was never scanned.
C29_AddrTakenAloneUnreachable ==
  Returned /\ ~hasReflect =>
    \A g \in FreeFuncs :
      OnlyAddrTaken(g) => g \notin ReachableFunctions /\ g \notin Range(scanned)

\* Without reflect, main has taken the address of a (a func()) and called a
\* function value of signature func(int) with Id[int] as operand: Id[int] is
\* reachable, a is not and was not scanned.
C29_Witness ==
  /\ Returned /\ ~hasReflect
  /\ body["main"] = <<Other(<<FnVal("a")>>), DynCall("func(int)", <<FnVal("Id[int]")>>)>>
  /\ OnlyAddrTaken("a")
  /\ "Id[int]" \in ReachableFunctions
  /\ "a" \notin ReachableFunctions /\ "a" \notin Range(scanned)

\* p is an initial part of q.
IsPrefix(p, q) == Len(p) <= Len(q) /\ SubSeq(q, 1, Len(p)) = p

\* No function is in both buffers.
BuffersDisjoint == Range(shadow) \cap Range(r.worklist) = {}

\* The buffer being iterated changes only by the swap, taken when the pass
\* over it is complete; otherwise the other buffer only grows at its end, and
\* a function whose scan begins comes from the iterated buffer.
DrainFrame ==
  /\ shadow' # shadow =>
       pc = "loop" /\ i > Len(shadow) /\ shadow' = r.worklist /\ r'.worklist = <<>>
  /\ shadow' = shadow => IsPrefix(r.worklist, r'.worklist)
  /\ scanned' # scanned =>
       /\ i \in DOMAIN shadow /\ scanned' = Append(scanned, shadow[i])
       /\ shadow[i] \notin Range(r.worklist)

\* The functions in S that were not in the other buffer before the step are
\* in it, and not in the iterated buffer, after the step.
AppendedToOther(S) ==
  \A f \in S : f \in Range(r'.worklist) /\ f \notin Range(shadow')

====
